---- MODULE Spec2Model ----
(***************************************************************************)
(* Hot-region balance scheduler of pd (package schedulers, hot_region.go): *)
(* the pending-influence ledger (regionPendings), its decay pass, the      *)
(* candidate search of balanceSolver and the dispatch that ties them       *)
(* together.  The rank formulas, the filter package, the operator package  *)
(* and the statistics package are collaborators whose code is outside the  *)
(* modelled files; their decisions are nondeterministic choices here.  The *)
(* cluster has a fixed set of stores and hot peers, so the rate-limited    *)
(* refresh of stLoadInfos changes only the pending sums the details hold;  *)
(* the search does not depend on them here, and the refresh is followed in *)
(* a specification of its own (LoadSpec).                                  *)
(***************************************************************************)
EXTENDS Integers, Sequences, FiniteSets, TLC

VARIABLES
    regionPendings,   \* baseHotScheduler.regionPendings : regionID -> pendingInfluence
    now,              \* the wall clock read by time.Since / time.Now
    regionSize,       \* cluster view: approximate size class of every region
    called,           \* whether the last step was a call of Schedule
    ret,              \* what that call did: the operators it returned and the regions
                      \* whose entry its decay pass deleted
    scheduleLimit,    \* cluster.GetSchedulerConfig().GetHotRegionScheduleLimit()
    limited,          \* whether the last invocation by the scheduler controller was
                      \* refused by IsScheduleAllowed
    stLoadInfos,      \* baseHotScheduler.stLoadInfos : resourceType -> the details of
                      \* the stores, as the pending sums they were built from
    updateReadTime,   \* baseHotScheduler.updateReadTime
    updateWriteTime,  \* baseHotScheduler.updateWriteTime
    lastCall,         \* after a call of Schedule: the RW side of the resource type it
                      \* drew, and whether the configuration forbade that side
    pc,               \* where every worker that calls Schedule is in its call
    lockHolder,       \* the worker that holds the lock of the scheduler, 0 for none
    rngState,         \* baseHotScheduler.r: the generator, intact or hit by a race
    drawn,            \* the resource type randomType gave every worker
    srcDetail,        \* the StoreLoadDetail of a store whose admission as source is
                      \* followed
    srcCall,          \* the solver of the last filterSrcStores over that detail, and
                      \* the stores it admitted
    dstDetail,        \* the StoreLoadDetail of a store whose admission as destination
                      \* is followed, with the verdicts of the filters on the store
    dstCall,          \* the solver and the main peer of the last filterDstStores over
                      \* that detail, and the stores it admitted
    tolInput,         \* the two tolerance ratios of the configuration and the loads,
                      \* the expected loads and the history of a store
    tolCall,          \* the last tolerance check over them: its solver, its side and
                      \* what it answered
    peerInput,        \* storeLoad.HotPeers of a store, in the order of the list, and
                      \* bs.maxPeerNum
    peerCall,         \* what the last filterHotPeers over them did: the list it
                      \* returned, the peers it put in bs.nthHotPeer, whether it sorted
    splitInput,       \* a solver, the key range of a region and the stats of its hot
                      \* buckets
    splitCall,        \* the operator of the last splitBucketsByLoad over them
    gcEtcd,           \* the etcd store behind GcServer.storage
    gcCall,           \* the last GC RPC: its request and what it returned
    gcSeen,           \* what the last GetMinServiceSafePoint returned as revision, and
                      \* whether a new service has registered a safe point since
    txnKv,            \* the keys of the etcd store behind etcdKVBase.client
    txn,              \* the etcdTxn of the running RunInTxn: its conditions and its
                      \* operations, with what its loads observed
    txnRet,           \* what the last call on the etcdTxn and the last RunInTxn returned
    quotaLimits,      \* retryQuota.limits : storeID -> limit
    quotaCall,        \* the last call on the retryQuota and what it returned
    slowScore,        \* StoreStats.SlowScore of every store of the cluster
    evictConf,        \* evictSlowStoreSchedulerConfig.EvictedStores, in memory
    evictStorage,     \* the configuration of the evict-slow-store scheduler in the storage
    evictPaused,      \* the stores the cluster was told are evicted as slow: they take
                      \* no leader
    persistFail,      \* whether the failpoint persistFail is enabled
    evictCall,        \* the last Schedule of the two schedulers and what it returned
    sortLoop,         \* the running sortHotPeers: its arguments, what is left of the two
                      \* lists and the union collected so far
    gcMins            \* the answers of GetMinServiceSafePoint the GC workers hold: the
                      \* safe point and the revision of each

\* the variables of the scheduler under its controller
gateVars == <<scheduleLimit, limited>>

\* the load details and their refresh times
refreshVars == <<stLoadInfos, updateReadTime, updateWriteTime>>
loadVars == <<refreshVars, lastCall>>

\* the workers that call Schedule concurrently, the lock and the generator
concVars == <<pc, lockHolder, rngState, drawn>>

\* the load detail given to filterSrcStores and what it admitted
srcVars == <<srcDetail, srcCall>>

\* the load detail given to filterDstStores and what it admitted
dstVars == <<dstDetail, dstCall>>

\* the loads given to the tolerance checks and what they answered
tolVars == <<tolInput, tolCall>>

\* the hot peers given to filterHotPeers and what it returned
peerVars == <<peerInput, peerCall>>

\* the buckets given to splitBucketsByLoad and the operator it returned
splitVars == <<splitInput, splitCall>>

\* the GC safe point service
gcVars == <<gcEtcd, gcCall, gcSeen>>

\* the transactions of the etcd-backed KV
txnVars == <<txnKv, txn, txnRet>>

\* the retry quota of the stores
quotaVars == <<quotaLimits, quotaCall>>

\* the evict-slow-store scheduler, its storage and its cluster
evictVars == <<slowScore, evictConf, evictStorage, evictPaused, persistFail, evictCall>>

\* the loop of sortHotPeers
sortVars == <<sortLoop>>

\* what the GC workers that follow the protocol remember
workerVars == <<gcMins>>

\* the KV store and the scheduler utilities
moreVars == <<txnVars, quotaVars, evictVars, sortVars, workerVars>>

\* what the scheduler never reads or writes
restVars == <<splitVars, gcVars, moreVars>>

\* the inputs and the results of the parts of the solver that are followed on their own
sideVars == <<srcVars, dstVars, tolVars, peerVars, restVars>>

\* what a direct call of Schedule leaves alone, or changes without an effect on the
\* rest
extVars == <<gateVars, loadVars, concVars, sideVars>>

vars == <<regionPendings, now, regionSize, called, ret, extVars>>

----------------------------------------------------------------------------
(* Bounds of the model *)

\* the clock stops here
MaxTime == 2

\* the clock stops here where the load details are followed
MaxLoadTime == 1

\* the largest hot-region-schedule-limit configured
MaxScheduleLimit == 2

\* the number of workers that call Schedule on the one scheduler
NumWorkers == 2

\* the largest number of hot peers of the store whose admission is followed
MaxHotPeers == 1

\* the longest list of hot peers given to filterHotPeers
MaxPeerListLen == 3

\* the largest key of a bucket given to splitBucketsByLoad
MaxKey == 5

\* the most hot buckets of a region
MaxBuckets == 3

\* the largest revision of the etcd store
MaxRevision == 5

\* the largest safe point requested
MaxSafePoint == 17

\* the largest key of the KV store
MaxTxnKey == 2

\* the most calls the function of a RunInTxn makes on its transaction
MaxTxnCalls == 3

\* the stores that are given to the retry quota
MaxQuotaStore == 3

----------------------------------------------------------------------------
(* Program constants and configuration values *)

\* conf.getStoreStatZombieDuration(), in clock units
StoreStatZombieDuration == 1
\* conf.getRegionsStatZombieDuration(), in clock units
RegionsStatZombieDuration == 2
\* statisticsInterval (one second), in clock units
StatisticsInterval == 1
\* utils.DimLen
DimLen == 3
\* conf.getSrcToleranceRatio(), in tenths
SrcToleranceRatio == 12
\* tiflashToleranceRatioCorrection, in tenths
TiflashToleranceRatioCorrection == 1
\* conf.getDstToleranceRatio(), in tenths
DstToleranceRatio == 12
\* detail.LoadPred.Expect on every dimension
ExpectLoad == 10
\* topnPosition, a package variable (10 unless it is set otherwise), set to the scale
\* of the lists of hot peers followed here
TopnPosition == 3
\* the zero time.Time: every time of the clock is at least statisticsInterval later
ZeroTime == -1

----------------------------------------------------------------------------
(* The cluster view (sche.SchedulerCluster): stores, regions, hot peers *)

\* stores 4 and 5 are TiFlash stores
Stores == {1, 2, 3, 4, 5}
TiFlashStores == {4, 5}
Regions == {1, 2}

\* region.GetPeers(): the stores of the peers of the region, in peer order
RegionPeerStores(r) ==
    CASE r = 1 -> <<1, 2, 4>>
      [] r = 2 -> <<2, 3>>

\* region.GetStoreIDs(): the stores that hold a peer of the region
RegionStoreIDs(r) == {RegionPeerStores(r)[i] : i \in 1..Len(RegionPeerStores(r))}

\* region.GetLeader().GetStoreId()
RegionLeaderStore(r) ==
    CASE r = 1 -> 1
      [] r = 2 -> 2

\* peer.GetRole() of the peer of region r on store s: region 1 has two voters and
\* a learner on the TiFlash store; region 2 has its leader and a learner that is
\* being added on store 3
RegionPeerRole(r, s) ==
    IF s \notin RegionStoreIDs(r) THEN "none"
    ELSE IF (r = 1 /\ s = 4) \/ (r = 2 /\ s = 3) THEN "Learner"
    ELSE "Voter"

\* region.GetFollowers(): the voters other than the leader
RegionFollowerStores(r) ==
    {s \in RegionStoreIDs(r) : RegionPeerRole(r, s) = "Voter"} \ {RegionLeaderStore(r)}

\* region.GetStorePeer(storeID) != nil
HasStorePeer(r, s) == s \in RegionStoreIDs(r)

IsTiFlash(s) == s \in TiFlashStores

RWTypes == {"read", "write"}
OpTypes == {"movePeer", "transferLeader"}
ResourceTypes == {"writePeer", "writeLeader", "readPeer", "readLeader"}

toResourceType(rwTy, opTy) ==
    CASE rwTy = "write" /\ opTy = "movePeer" -> "writePeer"
      [] rwTy = "write" /\ opTy = "transferLeader" -> "writeLeader"
      [] rwTy = "read" /\ opTy = "movePeer" -> "readPeer"
      [] rwTy = "read" /\ opTy = "transferLeader" -> "readLeader"

\* statistics.HotPeerStat: (RegionID, StoreID, isLeader, needs cool-down) per RW type
HotPeerStat(rw, r, s, cool) ==
    [rw |-> rw, RegionID |-> r, StoreID |-> s, isLeader |-> (RegionLeaderStore(r) = s),
     needCoolDown |-> cool]

\* cluster.GetHotPeerStats(rw): the hot peers the statistics report.  Region 1 is
\* write-hot on its leader and on its TiFlash learner, region 2 on a follower; both
\* leaders are read-hot, region 2 is also read on a follower, and the read stat of
\* region 1 on store 2 still needs to cool down after a leader transfer
HotPeerStats(rw) ==
    IF rw = "write"
    THEN {HotPeerStat("write", 1, 1, FALSE), HotPeerStat("write", 1, 4, FALSE),
          HotPeerStat("write", 2, 3, FALSE)}
    ELSE {HotPeerStat("read", 1, 1, FALSE), HotPeerStat("read", 2, 2, FALSE),
          HotPeerStat("read", 2, 3, FALSE), HotPeerStat("read", 1, 2, TRUE)}

\* the absent stat (a nil *HotPeerStat)
NoStat == [rw |-> "none", RegionID |-> 0, StoreID |-> 0, isLeader |-> FALSE, needCoolDown |-> FALSE]

----------------------------------------------------------------------------
(* Operators (package operator) *)

EndStatuses == {"SUCCESS", "CANCELED", "REPLACED", "EXPIRED", "TIMEOUT"}
Statuses == {"CREATED", "STARTED"} \cup EndStatuses

IsEndStatus(status) == status \in EndStatuses


\* an operator as the scheduler returns it: kind, region, source and target store,
\* and the role of the peer it adds on the target store ("none" when it adds none)
OpDesc(kind, r, from, to, role) ==
    [kind |-> kind, region |-> r, from |-> from, to |-> to, role |-> role]

\* the operator object a ledger entry points to: its description, its status and the
\* time it reached that status (read only for an end status; 0 before)
NewOperator(desc) ==
    [kind |-> desc.kind, region |-> desc.region, from |-> desc.from, to |-> desc.to,
     role |-> desc.role, status |-> "CREATED", reach |-> 0]

----------------------------------------------------------------------------
(* The pending-influence ledger *)

\* statistics.Influence built by collectPendingInfluence: the loads of the hot peer
\* (the given RW type and the inverse one) of one region on one store, Count = 1
collectPendingInfluence(peer) ==
    [RegionID |-> peer.RegionID, StoreID |-> peer.StoreID, Count |-> 1]

\* newPendingInfluence
newPendingInfluence(op, srcStore, dstStore, infl, maxZombieDur) ==
    [op |-> op, froms |-> srcStore, to |-> dstStore, origin |-> infl,
     maxZombieDuration |-> maxZombieDur]

\* calcPendingInfluence asking for the collection of an operator that did not succeed
\* as soon as it has ended
calcPendingInfluenceEarlyGC(op, maxZombieDur, t) ==
    IF ~IsEndStatus(op.status)
    THEN [weight |-> 1, needGC |-> FALSE]
    ELSE IF op.status # "SUCCESS"
         THEN [weight |-> 0, needGC |-> TRUE]
         ELSE IF t - op.reach >= maxZombieDur
              THEN [weight |-> 0, needGC |-> TRUE]
              ELSE [weight |-> 1, needGC |-> FALSE]

\* calcPendingInfluence asking for the collection of successful operators only
calcPendingInfluenceKeepingFailed(op, maxZombieDur, t) ==
    IF ~IsEndStatus(op.status)
    THEN [weight |-> 1, needGC |-> FALSE]
    ELSE LET zombieDur == t - op.reach
             w0 == IF zombieDur >= maxZombieDur THEN 0 ELSE 1
         IN  [weight |-> IF op.status # "SUCCESS" THEN 0 ELSE w0,
              needGC |-> (w0 = 0 /\ op.status = "SUCCESS")]

\* calcPendingInfluence at time t: (weight, needGC)
calcPendingInfluence(op, maxZombieDur, t) ==
    IF ~IsEndStatus(op.status)
    THEN [weight |-> 1, needGC |-> FALSE]
    ELSE LET zombieDur == t - op.reach
             w0 == IF zombieDur >= maxZombieDur THEN 0 ELSE 1
         IN  [weight |-> IF op.status # "SUCCESS" THEN 0 ELSE w0,
              needGC |-> (w0 = 0)]

\* the loop of summaryPendingInfluence over p.froms, from position i on; acc.deleted
\* tells whether the entry was deleted, acc.sum[s] counts how many times p.origin
\* was added to the PendingSum of store s
RECURSIVE fromsLoop(_, _, _, _)
fromsLoop(p, i, t, acc) ==
    IF i > Len(p.froms)
    THEN acc
    ELSE LET c == calcPendingInfluence(p.op, p.maxZombieDuration, t)
             from == p.froms[i]
         IN  IF c.needGC
             THEN fromsLoop(p, i + 1, t, [acc EXCEPT !.deleted = TRUE])
             ELSE LET a1 == IF from \in Stores /\ c.weight > 0
                            THEN [acc EXCEPT !.sum[from] = @ - c.weight]
                            ELSE acc
                      a2 == IF p.to \in Stores /\ c.weight > 0
                            THEN [a1 EXCEPT !.sum[p.to] = @ + c.weight]
                            ELSE a1
                  IN  fromsLoop(p, i + 1, t, a2)

\* a decay pass that forgets every entry
summaryPendingInfluenceForgetting(pendings, t) ==
    [regionPendings |-> <<>>,
     storeInfos |-> [s \in Stores |-> [r \in Regions |-> 0]]]

\* summaryPendingInfluence at time t: the ledger it leaves and the PendingSum of
\* every store, as the multiple of every entry's origin influence it holds
summaryPendingInfluence(pendings, t) ==
    LET res(r) == fromsLoop(pendings[r], 1, t,
                            [deleted |-> FALSE, sum |-> [s \in Stores |-> 0]])
        kept == {r \in DOMAIN pendings : ~res(r).deleted}
    IN  [regionPendings |-> [r \in kept |-> pendings[r]],
         storeInfos |-> [s \in Stores |->
                           [r \in Regions |-> IF r \in kept THEN res(r).sum[s] ELSE 0]]]

\* tryAddPendingInfluence without the lookup of the region: the new entry replaces
\* the one the region has
tryAddPendingInfluenceOverwriting(pendings, op, srcStore, dstStore, infl, maxZombieDur) ==
    [ok |-> TRUE,
     regionPendings |->
         [r \in DOMAIN pendings \cup {op.region} |->
             IF r = op.region
             THEN newPendingInfluence(op, srcStore, dstStore, infl, maxZombieDur)
             ELSE pendings[r]]]

\* hotScheduler.tryAddPendingInfluence: (ok, the ledger it leaves)
tryAddPendingInfluence(pendings, op, srcStore, dstStore, infl, maxZombieDur) ==
    LET regionID == op.region
    IN  IF regionID \in DOMAIN pendings
        THEN [ok |-> FALSE, regionPendings |-> pendings]
        ELSE [ok |-> TRUE,
              regionPendings |->
                  [r \in DOMAIN pendings \cup {regionID} |->
                      IF r = regionID
                      THEN newPendingInfluence(op, srcStore, dstStore, infl, maxZombieDur)
                      ELSE pendings[r]]]


----------------------------------------------------------------------------
(* balanceSolver: the search *)

\* the configuration and cluster options one invocation reads
Config(tiflash, forbid, firstQuery, bucket, revert) ==
    [enableForTiFlash |-> tiflash,        \* conf.getEnableForTiFlash()
     forbidRWType |-> forbid,             \* conf.isForbidRWType: "none", "read", "write"
     writeLeaderFirstQuery |-> firstQuery, \* write-leader first priority is QueryDim
     enableRegionBucket |-> bucket,       \* GetStoreConfig().IsEnableRegionBucket()
     searchRevertRegions |-> revert]      \* rank.needSearchRevertRegions()

\* the configurations tried: every option on; the read side forbidden and every
\* write option off; the write side forbidden and every read option off
Configs ==
    {Config(TRUE, "none", TRUE, TRUE, TRUE),
     Config(FALSE, "read", FALSE, FALSE, FALSE),
     Config(TRUE, "write", TRUE, FALSE, FALSE)}

\* the regions whose approximate size exceeds GetMaxMovableHotPeerSize()
IsOversized(sizes, r) == sizes[r] = "big"

\* the regions with bucket keys strictly inside their key range (splitBucketBySize)
BucketKeyRegions == {1, 2}

\* the regions whose hot buckets give splitBucketsByLoad a split key
HotBucketRegions == {1, 2}

\* detail.HotPeers of a store for one RW type
HotPeers(rw, s) == {p \in HotPeerStats(rw) : p.StoreID = s}

\* a solution; revertRegion = 0 and revertPeerStat = NoStat when there is no revert
Solution(src, r, main, dst, rr, rstat) ==
    [srcStore |-> src, region |-> r, mainPeerStat |-> main, dstStore |-> dst,
     revertRegion |-> rr, revertPeerStat |-> rstat]

\* filterHotPeers without the lookup in the ledger
filterHotPeersKeepingPending(pendings, rw, s) ==
    {item \in HotPeers(rw, s) : ~item.needCoolDown}

\* filterHotPeers: the hot peers of a store that are not pending and need no
\* cool-down (the lists of this cluster stay below topnPosition and maxPeerNum)
filterHotPeers(pendings, rw, s) ==
    {item \in HotPeers(rw, s) : item.RegionID \notin DOMAIN pendings /\ ~item.needCoolDown}

\* getRegion: the region of a hot peer, or 0 when it cannot be used from that store
getRegion(opTy, peerStat, storeID) ==
    LET region == peerStat.RegionID
    IN  IF region \notin Regions THEN 0
        ELSE IF opTy = "movePeer"
             THEN IF HasStorePeer(region, storeID) THEN region ELSE 0
             ELSE IF RegionLeaderStore(region) = storeID THEN region ELSE 0

\* the TiFlash rule of filterSrcStores and pickDstStores
tiFlashAllowed(rw, opTy, conf, s) ==
    IsTiFlash(s) => (conf.enableForTiFlash /\ rw = "write" /\ opTy = "movePeer")

\* filterSrcStores: the stores that may be admitted as source (the load and history
\* checks are the rank's and may reject any of them)
filterSrcStores(rw, opTy, detail, conf) ==
    {s \in detail : tiFlashAllowed(rw, opTy, conf, s) /\ HotPeers(rw, s) # {}}

\* pickDstStores without the TiFlash rule
pickDstStoresAnyEngine(rw, opTy, candidates, conf) == candidates

\* pickDstStores: the candidates that may be admitted as destination
pickDstStores(rw, opTy, candidates, conf) ==
    {s \in candidates : tiFlashAllowed(rw, opTy, conf, s)}

\* filterDstStores without the exclusions of the source: every store of the load
\* detail is a candidate of a peer move and of a read leader transfer
filterDstStoresKeepingSource(rw, opTy, src, region, main, detail, conf) ==
    IF opTy = "movePeer"
    THEN IF rw = "read" /\ main.isLeader
         THEN {}
         ELSE pickDstStores(rw, opTy, detail, conf)
    ELSE IF ~main.isLeader
         THEN {}
         ELSE IF rw = "read"
              THEN pickDstStores(rw, opTy, detail, conf)
              ELSE pickDstStores(rw, opTy, RegionFollowerStores(region) \cap detail, conf)

\* filterDstStores taking the candidates of a write-leader search as the read-leader
\* search does: every store other than the one of the main peer
filterDstStoresLikeRead(rw, opTy, src, region, main, detail, conf) ==
    IF opTy = "movePeer"
    THEN IF rw = "read" /\ main.isLeader
         THEN {}
         ELSE pickDstStores(rw, opTy, {s \in detail : s \notin RegionStoreIDs(region)}, conf)
    ELSE IF ~main.isLeader
         THEN {}
         ELSE pickDstStores(rw, opTy, {s \in detail : s # main.StoreID}, conf)

\* filterDstStores for the current source, region and main peer
filterDstStores(rw, opTy, src, region, main, detail, conf) ==
    IF opTy = "movePeer"
    THEN IF rw = "read" /\ main.isLeader
         THEN {}
         ELSE pickDstStores(rw, opTy, {s \in detail : s \notin RegionStoreIDs(region)}, conf)
    ELSE IF ~main.isLeader
         THEN {}
         ELSE IF rw = "read"
              THEN pickDstStores(rw, opTy, {s \in detail : s # main.StoreID}, conf)
              ELSE pickDstStores(rw, opTy, RegionFollowerStores(region) \cap detail, conf)

\* allowRevertRegion of solve
allowRevertRegion(opTy, region, srcStoreID) ==
    IF opTy = "transferLeader"
    THEN HasStorePeer(region, srcStoreID)
    ELSE ~HasStorePeer(region, srcStoreID)

\* the operator createOperator returns with an error
NoOp == OpDesc("none", 0, 0, 0, "none")

\* operator.CreateTransferLeaderOperator, asked to hand the leader the scheduler saw
\* on srcStoreID to dstStoreID: the builder refuses a target store that holds no
\* voter of the region
CreateTransferLeaderOperator(region, srcStoreID, dstStoreID) ==
    IF RegionPeerRole(region, dstStoreID) = "Voter"
    THEN OpDesc("transfer-leader", region, srcStoreID, dstStoreID, "none")
    ELSE NoOp

\* createOperator giving the peer it adds the role of a voter
createOperatorVoterRole(region, srcStoreID, dstStoreID) ==
    IF HasStorePeer(region, dstStoreID)
    THEN CreateTransferLeaderOperator(region, srcStoreID, dstStoreID)
    ELSE IF RegionLeaderStore(region) = srcStoreID
         THEN OpDesc("move-leader", region, srcStoreID, dstStoreID, "Voter")
         ELSE OpDesc("move-peer", region, srcStoreID, dstStoreID, "Voter")

\* createOperator building the transfer of the leader itself, for any store that
\* holds a peer of the region
createOperatorToAnyPeer(region, srcStoreID, dstStoreID) ==
    IF HasStorePeer(region, dstStoreID)
    THEN OpDesc("transfer-leader", region, srcStoreID, dstStoreID, "none")
    ELSE IF RegionLeaderStore(region) = srcStoreID
         THEN OpDesc("move-leader", region, srcStoreID, dstStoreID,
                     RegionPeerRole(region, srcStoreID))
         ELSE OpDesc("move-peer", region, srcStoreID, dstStoreID,
                     RegionPeerRole(region, srcStoreID))

\* createOperator: the operator built for (region, src, dst), NoOp on an error.  The
\* peer added on dst gets the role of the peer on src
createOperator(region, srcStoreID, dstStoreID) ==
    IF HasStorePeer(region, dstStoreID)
    THEN CreateTransferLeaderOperator(region, srcStoreID, dstStoreID)
    ELSE IF RegionLeaderStore(region) = srcStoreID
         THEN OpDesc("move-leader", region, srcStoreID, dstStoreID,
                     RegionPeerRole(region, srcStoreID))
         ELSE OpDesc("move-peer", region, srcStoreID, dstStoreID,
                     RegionPeerRole(region, srcStoreID))

\* a split operator of a region
SplitOp(region) == OpDesc("split-region", region, 0, 0, "none")

\* createSplitOperator(regions, bySize): one split per region that has a bucket key
RECURSIVE createSplitOperator(_)
createSplitOperator(regions) ==
    IF regions = <<>>
    THEN <<>>
    ELSE (IF Head(regions) \in BucketKeyRegions THEN <<SplitOp(Head(regions))>> ELSE <<>>)
         \o createSplitOperator(Tail(regions))

\* buildOperators returning the operator of the main region alone
buildOperatorsMainOnly(opTy, cur, sizes) ==
    <<createOperator(cur.region, cur.srcStore, cur.dstStore)>>

\* buildOperators for the current solution
buildOperators(opTy, cur, sizes) ==
    LET considered == IF cur.revertRegion = 0
                      THEN <<cur.region>>
                      ELSE <<cur.region, cur.revertRegion>>
        splitRegions == IF opTy = "movePeer"
                        THEN SelectSeq(considered, LAMBDA r : IsOversized(sizes, r))
                        ELSE <<>>
        currentOp == createOperator(cur.region, cur.srcStore, cur.dstStore)
        revertOp == createOperator(cur.revertRegion, cur.dstStore, cur.srcStore)
    IN  IF splitRegions # <<>>
        THEN createSplitOperator(splitRegions)
        ELSE IF currentOp = NoOp
        THEN <<>>
        ELSE IF cur.revertRegion = 0
        THEN <<currentOp>>
        ELSE IF revertOp = NoOp
        THEN <<>>
        ELSE <<currentOp, revertOp>>

\* a solver after solve(): its best solution and its operators
NoSolution == Solution(0, 0, NoStat, 0, 0, NoStat)
Solver(rw, opTy, best, ops, conf) ==
    [rwTy |-> rw, opTy |-> opTy, best |-> best, ops |-> ops, conf |-> conf]

\* solve: every (best, ops) the search can end with.  Which admissible candidate the
\* rank keeps is its choice, and so is keeping none
solve(pendings, rw, opTy, detail, conf, sizes) ==
    LET filtered == [s \in detail |-> filterHotPeers(pendings, rw, s)]
        mains == UNION {{<<s, p>> : p \in {q \in filtered[s] : getRegion(opTy, q, s) # 0}} :
                           s \in filterSrcStores(rw, opTy, detail, conf)}
        basic == UNION {{Solution(m[1], m[2].RegionID, m[2], d, 0, NoStat) :
                            d \in filterDstStores(rw, opTy, m[1], m[2].RegionID, m[2],
                                                  detail, conf)} : m \in mains}
        reverts(c) == {q \in filtered[c.dstStore] :
                          /\ getRegion(opTy, q, c.dstStore) # 0
                          /\ q.RegionID # c.region
                          /\ allowRevertRegion(opTy, q.RegionID, c.srcStore)}
        hedged == IF conf.searchRevertRegions
                  THEN UNION {{Solution(c.srcStore, c.region, c.mainPeerStat, c.dstStore,
                                        q.RegionID, q) : q \in reverts(c)} : c \in basic}
                  ELSE {}
        built == {[best |-> c, ops |-> buildOperators(opTy, c, sizes)] :
                     c \in basic \cup hedged}
        byLoad == IF conf.enableRegionBucket
                  THEN {[best |-> Solution(m[1], m[2].RegionID, m[2], 0, 0, NoStat),
                         ops |-> <<SplitOp(m[2].RegionID)>>] :
                           m \in {x \in mains : x[2].RegionID \in HotBucketRegions}}
                  ELSE {}
    IN  {[best |-> NoSolution, ops |-> <<>>]}
        \cup {b \in built : b.ops # <<>>}
        \cup byLoad


\* calcMaxZombieDur
calcMaxZombieDur(bs) ==
    LET resourceTy == toResourceType(bs.rwTy, bs.opTy)
    IN  CASE resourceTy = "writeLeader" ->
                IF bs.conf.writeLeaderFirstQuery
                THEN StoreStatZombieDuration
                ELSE RegionsStatZombieDuration
          [] resourceTy = "writePeer" ->
                IF IsTiFlash(bs.best.srcStore)
                THEN RegionsStatZombieDuration
                ELSE StoreStatZombieDuration
          [] OTHER -> StoreStatZombieDuration

\* the source stores and the destination store balanceSolver.tryAddPendingInfluence
\* records for the operators of a solver (a split takes from every store of the
\* region; Go ranges over the map of GetStoreIDs() in no fixed order, and the
\* additions of the decay pass commute)
pendingSrcStoreIDs(bs, isSplit) ==
    IF isSplit THEN RegionPeerStores(bs.ops[1].region) ELSE <<bs.best.srcStore>>

\* the destination recorded for a split is the destination store of the solution
pendingDstStoreIDOfBest(bs, isSplit) == bs.best.dstStore

pendingDstStoreID(bs, isSplit) ==
    IF isSplit THEN 0 ELSE bs.best.dstStore

\* balanceSolver.tryAddPendingInfluence with the entry of the main operator inserted
\* before the engines of the two stores are compared
bsTryAddPendingInfluenceMainFirst(pendings, bs) ==
    IF bs.best = NoSolution \/ bs.ops = <<>>
    THEN [ok |-> FALSE, regionPendings |-> pendings]
    ELSE
      LET isSplit == bs.ops[1].kind = "split-region"
          main == tryAddPendingInfluence(pendings, NewOperator(bs.ops[1]),
                      pendingSrcStoreIDs(bs, isSplit), pendingDstStoreID(bs, isSplit),
                      collectPendingInfluence(bs.best.mainPeerStat), calcMaxZombieDur(bs))
      IN  IF ~isSplit /\ IsTiFlash(bs.best.srcStore) # IsTiFlash(bs.best.dstStore)
          THEN [ok |-> FALSE, regionPendings |-> main.regionPendings]
          ELSE IF isSplit \/ ~main.ok \/ bs.best.revertPeerStat = NoStat \/ Len(bs.ops) <= 1
          THEN main
          ELSE tryAddPendingInfluence(main.regionPendings, NewOperator(bs.ops[2]),
                   pendingSrcStoreIDs(bs, isSplit), pendingDstStoreID(bs, isSplit),
                   collectPendingInfluence(bs.best.revertPeerStat), calcMaxZombieDur(bs))

\* balanceSolver.tryAddPendingInfluence: (ok, the ledger it leaves)
bsTryAddPendingInfluence(pendings, bs) ==
    IF bs.best = NoSolution \/ bs.ops = <<>>
    THEN [ok |-> FALSE, regionPendings |-> pendings]
    ELSE
      LET isSplit == bs.ops[1].kind = "split-region"
      IN  IF ~isSplit /\ IsTiFlash(bs.best.srcStore) # IsTiFlash(bs.best.dstStore)
          THEN [ok |-> FALSE, regionPendings |-> pendings]
          ELSE
            LET maxZombieDur == calcMaxZombieDur(bs)
                srcStoreIDs == pendingSrcStoreIDs(bs, isSplit)
                dstStoreID == pendingDstStoreID(bs, isSplit)
                main == tryAddPendingInfluence(pendings, NewOperator(bs.ops[1]),
                            srcStoreIDs, dstStoreID,
                            collectPendingInfluence(bs.best.mainPeerStat), maxZombieDur)
            IN  IF ~main.ok
                THEN [ok |-> FALSE, regionPendings |-> main.regionPendings]
                ELSE IF isSplit
                THEN [ok |-> TRUE, regionPendings |-> main.regionPendings]
                ELSE IF bs.best.revertPeerStat # NoStat /\ Len(bs.ops) > 1
                THEN LET revert == tryAddPendingInfluence(main.regionPendings,
                                       NewOperator(bs.ops[2]), srcStoreIDs, dstStoreID,
                                       collectPendingInfluence(bs.best.revertPeerStat),
                                       maxZombieDur)
                     IN  [ok |-> revert.ok, regionPendings |-> revert.regionPendings]
                ELSE [ok |-> TRUE, regionPendings |-> main.regionPendings]

\* what a balanceHot... function returns: the operators and the ledger it leaves
Outcome(ops, pendings) == [ops |-> ops, regionPendings |-> pendings]

\* balanceHotReadRegions, given both solvers after solve() and the rank's
\* leaderSolver.rank.betterThan(peerSolver.best)
balanceHotReadRegions(pendings, leaderSolver, peerSolver, leaderBetter) ==
    LET leader == bsTryAddPendingInfluence(pendings, leaderSolver)
        peer == bsTryAddPendingInfluence(pendings, peerSolver)
        \* the second solver is tried on the ledger the first one left
        peerAfter == bsTryAddPendingInfluence(leader.regionPendings, peerSolver)
        leaderAfter == bsTryAddPendingInfluence(peer.regionPendings, leaderSolver)
    IN  IF leaderSolver.ops = <<>> /\ peerSolver.ops = <<>>
        THEN Outcome(<<>>, pendings)
        ELSE IF leaderSolver.ops = <<>>
        THEN (IF peer.ok THEN Outcome(peerSolver.ops, peer.regionPendings)
                         ELSE Outcome(<<>>, peer.regionPendings))
        ELSE IF peerSolver.ops = <<>>
        THEN (IF leader.ok THEN Outcome(leaderSolver.ops, leader.regionPendings)
                           ELSE Outcome(<<>>, leader.regionPendings))
        ELSE IF leaderBetter
        THEN (IF leader.ok THEN Outcome(leaderSolver.ops, leader.regionPendings)
              ELSE IF peerAfter.ok THEN Outcome(peerSolver.ops, peerAfter.regionPendings)
              ELSE Outcome(<<>>, peerAfter.regionPendings))
        ELSE (IF peer.ok THEN Outcome(peerSolver.ops, peer.regionPendings)
              ELSE IF leaderAfter.ok THEN Outcome(leaderSolver.ops, leaderAfter.regionPendings)
              ELSE Outcome(<<>>, leaderAfter.regionPendings))

\* balanceHotWritePeers and balanceHotWriteLeaders
balanceHotWrite(pendings, solver) ==
    LET added == bsTryAddPendingInfluence(pendings, solver)
    IN  IF solver.ops # <<>> /\ added.ok
        THEN Outcome(solver.ops, added.regionPendings)
        ELSE Outcome(<<>>, added.regionPendings)


----------------------------------------------------------------------------
(* The tolerance gate of filterSrcStores, on the loads of the details.  Loads are  *)
(* whole numbers and ratios are in tenths: load > ratio * expect is compared as    *)
(* 10 * load > ratio * expect                                                      *)

\* the dimensions of a load: utils.ByteDim, utils.KeyDim, utils.QueryDim
Dims == 0..(DimLen - 1)

\* minLoad.Loads[i] > toleranceRatio*expectLoad.Loads[i]
exceeds(load, toleranceRatio, expect) == 10 * load > toleranceRatio * expect

\* a solver as the tolerance checks read it: the RW type and the search, the two
\* priorities, the check policy of its rank and conf.getEnableForTiFlash()
SrcSolver(rw, opTy, first, second, policy, tiflash) ==
    [rwTy |-> rw, opTy |-> opTy, firstPriority |-> first, secondPriority |-> second,
     policy |-> policy, enableForTiFlash |-> tiflash]

isSelectedDim(bs, dim) == dim = bs.firstPriority \/ dim = bs.secondPriority

\* the three check policies; the predicate f of the code is given as the set of the
\* dimensions it holds on
checkByPriorityAndToleranceAllOf(bs, f) ==
    \A i \in Dims : IF isSelectedDim(bs, i) THEN i \in f ELSE TRUE

checkByPriorityAndToleranceAnyOf(bs, f) ==
    \E i \in Dims : IF isSelectedDim(bs, i) THEN i \in f ELSE FALSE

checkByPriorityAndToleranceFirstOnly(bs, f) == bs.firstPriority \in f

\* bs.rank.checkByPriorityAndTolerance and bs.rank.checkHistoryLoadsByPriority: the
\* rank of the solver holds one of the three policies, for both checks
rankCheckByPriority(bs, f) ==
    CASE bs.policy = "AllOf" -> checkByPriorityAndToleranceAllOf(bs, f)
      [] bs.policy = "AnyOf" -> checkByPriorityAndToleranceAnyOf(bs, f)
      [] bs.policy = "FirstOnly" -> checkByPriorityAndToleranceFirstOnly(bs, f)

checkSrcByPriorityAndTolerance(bs, minLoad, expectLoad, toleranceRatio) ==
    rankCheckByPriority(bs,
        {i \in Dims : exceeds(minLoad[i], toleranceRatio, expectLoad[i])})

\* a detail without history samples passes; HistoryLoads[i] is the list of the
\* samples of dimension i
checkSrcHistoryLoadsByPriorityAndTolerance(bs, current, expectLoad, toleranceRatio) ==
    IF current = <<>>
    THEN TRUE
    ELSE rankCheckByPriority(bs,
             {i \in Dims : \A j \in 1..Len(current[i]) :
                               exceeds(current[i][j], toleranceRatio, expectLoad[i])})

\* a StoreLoadDetail: the number of its hot peers, its engine, LoadPred.Min().Loads
\* and LoadPred.Current.HistoryLoads; LoadPred.Expect is ExpectLoad on every
\* dimension, for the load and for every history sample
StoreDetail(hotPeers, tiflash, minLoads, history) ==
    [HotPeers |-> hotPeers, IsTiFlash |-> tiflash, Min |-> minLoads,
     HistoryLoads |-> history]

Expect == [i \in Dims |-> ExpectLoad]

\* filterSrcStores without the check of the history loads
filterSrcStoresIgnoringHistory(bs, details) ==
    {id \in DOMAIN details :
        LET detail == details[id]
            srcToleranceRatio == SrcToleranceRatio
                + (IF detail.IsTiFlash THEN TiflashToleranceRatioCorrection ELSE 0)
        IN  /\ detail.IsTiFlash =>
                   (bs.enableForTiFlash /\ bs.rwTy = "write" /\ bs.opTy = "movePeer")
            /\ detail.HotPeers # 0
            /\ checkSrcByPriorityAndTolerance(bs, detail.Min, Expect, srcToleranceRatio)}

\* filterSrcStores over the loads: the stores of bs.stLoadDetail it admits
filterSrcStoresByLoad(bs, details) ==
    {id \in DOMAIN details :
        LET detail == details[id]
            srcToleranceRatio == SrcToleranceRatio
                + (IF detail.IsTiFlash THEN TiflashToleranceRatioCorrection ELSE 0)
        IN  /\ detail.IsTiFlash =>
                   (bs.enableForTiFlash /\ bs.rwTy = "write" /\ bs.opTy = "movePeer")
            /\ detail.HotPeers # 0
            /\ checkSrcByPriorityAndTolerance(bs, detail.Min, Expect, srcToleranceRatio)
            /\ checkSrcHistoryLoadsByPriorityAndTolerance(bs, detail.HistoryLoads, Expect,
                                                          srcToleranceRatio)}

\* the detail of a store without hot peers, its loads above the tolerance
IdleStoreDetail ==
    StoreDetail(0, FALSE, [i \in Dims |-> ExpectLoad + 3], <<>>)

\* srcCall before the first call
NoFilter == [bs |-> SrcSolver("none", "none", 0, 0, "none", FALSE), admitted |-> {}]

----------------------------------------------------------------------------
(* The destination side: the filter pipeline and the tolerance gate of           *)
(* filterDstStores and pickDstStores.  The filters are of package filter; what    *)
(* each of them answers for a store is part of the detail of the store           *)

\* maxLoad.Loads[i]*toleranceRatio < expect.Loads[i]
below(load, toleranceRatio, expect) == load * toleranceRatio < 10 * expect

checkDstByPriorityAndTolerance(bs, maxLoad, expect, toleranceRatio) ==
    rankCheckByPriority(bs,
        {i \in Dims : below(maxLoad[i], toleranceRatio, expect[i])})

\* a detail without history samples passes
checkDstHistoryLoadsByPriorityAndTolerance(bs, current, expect, toleranceRatio) ==
    IF current = <<>>
    THEN TRUE
    ELSE rankCheckByPriority(bs,
             {i \in Dims : \A j \in 1..Len(current[i]) :
                               below(current[i][j], toleranceRatio, expect[i])})

\* the filters filterDstStores builds: the store-state filter that asks whether the
\* store can receive a peer (MoveRegion) or can take the leader (TransferLeader), the
\* excluded filter over the stores of the region, the special-use filter and the
\* placement safeguard (NewPlacementLeaderSafeguard for a transfer of the leader;
\* where it returns no filter nothing is rejected for placement)
FilterNames ==
    {"StoreStateMoveRegion", "StoreStateTransferLeader", "Excluded", "SpecialUse",
     "PlacementSafeguard"}

\* a StoreLoadDetail as the destination side reads it: its engine, the peer of the
\* current region on the store ("none", "follower", "leader"), the filters that pass
\* the store as a target, LoadPred.Max().Loads and LoadPred.Current.HistoryLoads;
\* LoadPred.Expect is ExpectLoad on every dimension
DstStoreDetail(tiflash, peer, passes, maxLoads, history) ==
    [IsTiFlash |-> tiflash, peer |-> peer, passes |-> passes, Max |-> maxLoads,
     HistoryLoads |-> history]

\* filter.Target(conf, store, filters): every filter passes the store; the excluded
\* filter is built from bs.cur.region.GetStoreIDs()
Target(detail, filters) ==
    \A f \in filters :
        IF f = "Excluded" THEN detail.peer = "none" ELSE f \in detail.passes

\* pickDstStores without the filter pipeline
pickDstStoresUnfiltered(bs, filters, candidates, details) ==
    {id \in candidates :
        LET detail == details[id]
            dstToleranceRatio == DstToleranceRatio
                + (IF detail.IsTiFlash THEN TiflashToleranceRatioCorrection ELSE 0)
        IN  /\ detail.IsTiFlash =>
                   (bs.enableForTiFlash /\ bs.rwTy = "write" /\ bs.opTy = "movePeer")
            /\ checkDstByPriorityAndTolerance(bs, detail.Max, Expect, dstToleranceRatio)
            /\ checkDstHistoryLoadsByPriorityAndTolerance(bs, detail.HistoryLoads, Expect,
                                                          dstToleranceRatio)}

\* pickDstStores over the loads: the candidates it admits
pickDstStoresByLoad(bs, filters, candidates, details) ==
    {id \in candidates :
        LET detail == details[id]
            dstToleranceRatio == DstToleranceRatio
                + (IF detail.IsTiFlash THEN TiflashToleranceRatioCorrection ELSE 0)
        IN  /\ detail.IsTiFlash =>
                   (bs.enableForTiFlash /\ bs.rwTy = "write" /\ bs.opTy = "movePeer")
            /\ Target(detail, filters)
            /\ checkDstByPriorityAndTolerance(bs, detail.Max, Expect, dstToleranceRatio)
            /\ checkDstHistoryLoadsByPriorityAndTolerance(bs, detail.HistoryLoads, Expect,
                                                          dstToleranceRatio)}

\* the filters of filterDstStores for the search of the solver
dstFilters(bs) ==
    IF bs.opTy = "movePeer"
    THEN {"StoreStateMoveRegion", "Excluded", "SpecialUse", "PlacementSafeguard"}
    ELSE {"StoreStateTransferLeader", "SpecialUse", "PlacementSafeguard"}

\* the candidates of filterDstStores: every store for a move of a peer; for a read
\* transfer of the leader every store but that of the main peer that holds a peer of
\* the region or can receive one; for a write transfer the followers of the region
dstCandidates(bs, mainStoreID, details) ==
    IF bs.opTy = "movePeer"
    THEN DOMAIN details
    ELSE IF bs.rwTy = "read"
    THEN {id \in DOMAIN details \ {mainStoreID} :
             \/ details[id].peer # "none"
             \/ Target(details[id], {"StoreStateMoveRegion"})}
    ELSE {id \in DOMAIN details : details[id].peer = "follower"}

\* filterDstStores over the loads, for a main peer on mainStoreID that is the leader
\* or not: the stores of bs.stLoadDetail it admits
filterDstStoresByLoad(bs, mainIsLeader, mainStoreID, details) ==
    IF bs.opTy = "movePeer" /\ bs.rwTy = "read" /\ mainIsLeader
    THEN {}
    ELSE IF bs.opTy = "transferLeader" /\ ~mainIsLeader
    THEN {}
    ELSE pickDstStoresByLoad(bs, dstFilters(bs), dstCandidates(bs, mainStoreID, details),
                             details)

\* the detail of a store that no filter passes, its loads at the expected load
RejectedStoreDetail ==
    DstStoreDetail(FALSE, "none", {}, [i \in Dims |-> ExpectLoad], <<>>)

\* dstCall before the first call
NoDstFilter ==
    [bs |-> SrcSolver("none", "none", 0, 0, "none", FALSE), mainIsLeader |-> FALSE,
     admitted |-> {}]

----------------------------------------------------------------------------
(* The tolerance checks under any configured ratio *)

\* the two ratios of the configuration, in tenths, and the loads of a store: its min
\* and max load are one vector here, its history holds the samples of every dimension
TolInput(srcRatio, dstRatio, loads, expect, history) ==
    [srcToleranceRatio |-> srcRatio, dstToleranceRatio |-> dstRatio, Loads |-> loads,
     Expect |-> expect, HistoryLoads |-> history]

\* enableExpectation
enableExpectation(conf) == conf.dstToleranceRatio > 0 /\ conf.srcToleranceRatio > 0

\* the default configuration and a store at the expected load
DefaultTolInput ==
    TolInput(SrcToleranceRatio, DstToleranceRatio, [i \in Dims |-> ExpectLoad],
             [i \in Dims |-> ExpectLoad], <<>>)

\* tolCall before the first check
NoCheck ==
    [bs |-> SrcSolver("none", "none", 0, 0, "none", FALSE), side |-> "none", passed |-> FALSE]

----------------------------------------------------------------------------
(* filterHotPeers on the list of hot peers of a store: the two sorts, the n-th    *)
(* peers it keeps, the cap of sortHotPeers and the filter of appendItem           *)

\* a hot peer of the list: its position in storeLoad.HotPeers (which stands for the
\* pointer), its loads on the first and on the second priority, whether its region
\* has an entry in regionPendings and whether it needs to cool down
ListedPeer(id, first, second, pending, cool) ==
    [id |-> id, first |-> first, second |-> second, pending |-> pending,
     needCoolDown |-> cool]

\* the condition of appendItem
appendable(item) == ~item.pending /\ ~item.needCoolDown

\* sort.Slice(firstSort, ...) and sort.Slice(secondSort, ...): every order of the
\* list that descends by the load of the priority; sort.Slice is not stable, so peers
\* of equal load come in any order
sortedByLoad(hotPeers, priority) ==
    LET n == Len(hotPeers)
        load(item) == IF priority = "first" THEN item.first ELSE item.second
    IN  {[i \in 1..n |-> hotPeers[f[i]]] :
            f \in {g \in [1..n -> 1..n] :
                      /\ \A i, j \in 1..n : i # j => g[i] # g[j]
                      /\ \A i \in 1..(n - 1) :
                             load(hotPeers[g[i]]) >= load(hotPeers[g[i + 1]])}}

\* one inner loop of sortHotPeers: peers are popped off the head of the list until
\* one that is not in the union is found and added
RECURSIVE takeUnseen(_, _)
takeUnseen(sorted, union) ==
    IF sorted = <<>>
    THEN [rest |-> sorted, union |-> union]
    ELSE IF Head(sorted) \notin union
         THEN [rest |-> Tail(sorted), union |-> union \cup {Head(sorted)}]
         ELSE takeUnseen(Tail(sorted), union)

\* the outer loop of sortHotPeers, from the union collected so far.  The loop would
\* not end with both lists empty and the union short of maxPeerNum; filterHotPeers
\* calls it with more than maxPeerNum peers in each list
RECURSIVE sortHotPeersFrom(_, _, _, _)
sortHotPeersFrom(firstSort, secondSort, union, maxPeerNum) ==
    IF Cardinality(union) >= maxPeerNum \/ (firstSort = <<>> /\ secondSort = <<>>)
    THEN union
    ELSE LET one == takeUnseen(firstSort, union)
             two == IF Cardinality(one.union) < maxPeerNum
                    THEN takeUnseen(secondSort, one.union)
                    ELSE [rest |-> secondSort, union |-> one.union]
         IN  sortHotPeersFrom(one.rest, two.rest, two.union, maxPeerNum)

\* sortHotPeers
sortHotPeers(firstSort, secondSort, maxPeerNum) ==
    sortHotPeersFrom(firstSort, secondSort, {}, maxPeerNum)

\* sortHotPeers with a second inner loop that does not look at the size of the union
sortHotPeersIterationUncapped(firstSort, secondSort, union, maxPeerNum) ==
    LET one == takeUnseen(firstSort, union)
        two == takeUnseen(secondSort, one.union)
    IN  [firstSort |-> one.rest, secondSort |-> two.rest, union |-> two.union]

\* one iteration of the outer loop of sortHotPeers: the first inner loop, then the
\* second one when the union is still short of maxPeerNum
sortHotPeersIteration(firstSort, secondSort, union, maxPeerNum) ==
    LET one == takeUnseen(firstSort, union)
        two == IF Cardinality(one.union) < maxPeerNum
               THEN takeUnseen(secondSort, one.union)
               ELSE [rest |-> secondSort, union |-> one.union]
    IN  [firstSort |-> one.rest, secondSort |-> two.rest, union |-> two.union]

\* a call of sortHotPeers: where it is, the two lists it was given, what is left of
\* them and the union
SortLoop(at, first, second, firstSort, secondSort, union) ==
    [pc |-> at, first |-> first, second |-> second, firstSort |-> firstSort,
     secondSort |-> secondSort, union |-> union]

\* sortHotPeers not called
NoSortLoop == SortLoop("idle", <<>>, <<>>, <<>>, <<>>, {})

\* the peers of a set in every order: ranging over a Go map gives them in any order
anyOrder(peers) ==
    LET n == Cardinality(peers)
    IN  {f \in [1..n -> peers] : \A i, j \in 1..n : i # j => f[i] # f[j]}

\* no peer (a nil *HotPeerStat)
NoPeer == ListedPeer(0, 0, 0, FALSE, FALSE)

\* what a call of filterHotPeers did: the list it returned, bs.nthHotPeer[storeID] at
\* the two priorities, and whether it made the two sorted copies
PeerFilterResult(retPeers, nthFirst, nthSecond, sorted) ==
    [ret |-> retPeers, nthFirst |-> nthFirst, nthSecond |-> nthSecond, sorted |-> sorted]

\* the two sorted copies made for every list
needsSortAlways(n, maxPeerNum) == TRUE

\* the condition under which filterHotPeers makes the two sorted copies of the list
needsSort(n, maxPeerNum) == n >= TopnPosition \/ n > maxPeerNum

\* filterHotPeers that caps the list after appendItem has filtered it
filterHotPeersCappingLast(hotPeers, maxPeerNum) ==
    LET n == Len(hotPeers)
        kept == SelectSeq(hotPeers, appendable)
    IN  IF needsSort(n, maxPeerNum)
        THEN UNION {UNION {
                 {PeerFilterResult(retPeers,
                      IF n >= TopnPosition THEN firstSort[TopnPosition] ELSE NoPeer,
                      IF n >= TopnPosition THEN secondSort[TopnPosition] ELSE NoPeer,
                      TRUE) :
                    retPeers \in IF n > maxPeerNum
                                 THEN anyOrder(sortHotPeers(SelectSeq(firstSort, appendable),
                                                 SelectSeq(secondSort, appendable), maxPeerNum))
                                 ELSE {kept}} :
                 secondSort \in sortedByLoad(hotPeers, "second")} :
                 firstSort \in sortedByLoad(hotPeers, "first")}
        ELSE {PeerFilterResult(kept, NoPeer, NoPeer, FALSE)}

\* filterHotPeers over the list of a store: every result the call can have
filterHotPeersByLoad(hotPeers, maxPeerNum) ==
    LET n == Len(hotPeers)
        kept == SelectSeq(hotPeers, appendable)
    IN  IF needsSort(n, maxPeerNum)
        THEN UNION {UNION {
                 {PeerFilterResult(retPeers,
                      IF n >= TopnPosition THEN firstSort[TopnPosition] ELSE NoPeer,
                      IF n >= TopnPosition THEN secondSort[TopnPosition] ELSE NoPeer,
                      TRUE) :
                    retPeers \in IF n > maxPeerNum
                                 THEN anyOrder({item \in sortHotPeers(firstSort, secondSort,
                                                              maxPeerNum) : appendable(item)})
                                 ELSE {kept}} :
                 secondSort \in sortedByLoad(hotPeers, "second")} :
                 firstSort \in sortedByLoad(hotPeers, "first")}
        ELSE {PeerFilterResult(kept, NoPeer, NoPeer, FALSE)}

\* a store without hot peers, under a max-peer-number of 1
NoHotPeers == [HotPeers |-> <<>>, maxPeerNum |-> 1]

\* peerCall before the first call
NoPeerFilter == [done |-> FALSE, result |-> PeerFilterResult(<<>>, NoPeer, NoPeer, FALSE)]

----------------------------------------------------------------------------
(* Split keys from the buckets of a region.  Keys are whole numbers in key order   *)
(* and the empty key is 0; a bucket stat has a key range and its loads by          *)
(* utils.RegionStatKind                                                            *)

\* the empty key: the start key of the first region and the end key of the last one
EmptyKey == 0

\* utils.QueryDim: the dimension the buckets have no loads for
QueryDim == 2

\* utils.RegionReadBytes and utils.RegionWriteBytes: the first read kind and the
\* first write kind of utils.RegionStatKind, DimLen kinds each
RegionReadBytes == 0
RegionWriteBytes == 3
RegionStatKinds == 0..(2 * DimLen - 1)

\* keyutil.Between: key lies strictly between startKey and endKey, where an empty
\* endKey is the end of the key space
Between(startKey, endKey, key) ==
    key > startKey /\ (endKey = EmptyKey \/ key < endKey)

\* the key range of a region
KeyRange(startKey, endKey) == [StartKey |-> startKey, EndKey |-> endKey]

\* buckets.BucketStat: Loads is indexed by utils.RegionStatKind
BucketStat(startKey, endKey, loads) ==
    [StartKey |-> startKey, EndKey |-> endKey, Loads |-> loads]

\* operator.CreateSplitRegionOperator with CheckPolicy_USEKEY, and the nil operator
SplitRegionOperator(keys) == [kind |-> "split-region", keys |-> keys]
NilOperator == [kind |-> "none", keys |-> <<>>]

\* bucketFirstStat: the kind of the first priority, of the second one when the
\* first is the query rate
bucketFirstStat(rwTy, firstPriority, secondPriority) ==
    LET base == IF rwTy = "write" THEN RegionWriteBytes ELSE RegionReadBytes
        offset == IF firstPriority = QueryDim THEN secondPriority ELSE firstPriority
    IN  base + offset

\* splitBucketsOperator: the split at the keys that are inside the region
splitBucketsOperator(region, keys) ==
    LET inRegion(key) == Between(region.StartKey, region.EndKey, key)
        splitKeys == SelectSeq(keys, inRegion)
    IN  IF Len(splitKeys) = 0 THEN NilOperator ELSE SplitRegionOperator(splitKeys)

\* the loop of splitBucketsByLoad, from (acc, splitIdx): the loads are added until
\* acc is no longer below half or the stats are used up
RECURSIVE halfPoint(_, _, _, _, _)
halfPoint(stats, dim, half, acc, splitIdx) ==
    IF acc < half /\ splitIdx < Len(stats)
    THEN halfPoint(stats, dim, half, acc + stats[splitIdx + 1].Loads[dim], splitIdx + 1)
    ELSE [acc |-> acc, splitIdx |-> splitIdx]

\* the sum of the loads of the stats on one kind
RECURSIVE sumLoads(_, _)
sumLoads(stats, dim) ==
    IF stats = <<>> THEN 0 ELSE Head(stats).Loads[dim] + sumLoads(Tail(stats), dim)

\* splitBucketsByLoad(region, bucketStats) of a solver whose bucketFirstStat is dim
splitBucketsByLoad(region, bucketStats, dim) ==
    LET startKey == region.StartKey
        endKey == region.EndKey
        matches(stat) == \/ Between(startKey, endKey, stat.StartKey)
                         \/ Between(startKey, endKey, stat.EndKey)
        stats == SelectSeq(bucketStats, matches)
        totalLoads == sumLoads(stats, dim)
        loop == halfPoint(stats, dim, totalLoads \div 2, 0, 0)
        last == stats[loop.splitIdx]
        splitKey == IF Between(startKey, endKey, last.EndKey)
                    THEN last.EndKey
                    ELSE last.StartKey
    IN  IF Len(stats) = 0 \/ Len(stats) = 1
        THEN NilOperator
        ELSE IF loop.splitIdx <= 0
        THEN NilOperator
        ELSE splitBucketsOperator(region, <<splitKey>>)

\* the solver that splits: its RW type and its priorities
SplitSolver(rwTy, firstPriority, secondPriority) ==
    [rwTy |-> rwTy, firstPriority |-> firstPriority, secondPriority |-> secondPriority]

\* what is given to splitBucketsByLoad
SplitInput(bs, region, bucketStats) == [bs |-> bs, region |-> region, stats |-> bucketStats]

\* no buckets, and splitBucketsByLoad not called yet
NoSplitInput == SplitInput(SplitSolver("read", 0, 1), KeyRange(EmptyKey, EmptyKey), <<>>)
NoSplit == [done |-> FALSE, op |-> NilOperator]

----------------------------------------------------------------------------
(* The GC safe point service of one key space (GcServer) over its etcd storage.    *)
(* Strings other than paths are sequences of numbers: "" is <<>>, a number in base  *)
(* 16 is the sequence of its digits, and the JSON document of a service safe point  *)
(* is the sequence of its fields.  The cluster is bootstrapped                     *)

\* kv.RevisionUnavailable
RevisionUnavailable == -1

\* the services that register service safe points
Services == {"br", "cdc"}

\* endpoint.KeySpacePath, KeySpaceGCSafePointPath and KeySpaceServiceSafePointPath of
\* the key space
KeySpacePath == "key_space"
KeySpaceGCSafePointPath == "key_space/gc"
KeySpaceServiceSafePointPath(serviceID) ==
    CASE serviceID = "br" -> "key_space/service/br"
      [] serviceID = "cdc" -> "key_space/service/cdc"

\* etcd: the revision of the store, the values of the keys that exist, and the
\* ModRevision of the key whose revision is read
Etcd(revision, kvs, modRevision) ==
    [revision |-> revision, kvs |-> kvs, modRevision |-> modRevision]
EmptyEtcd == Etcd(0, <<>>, RevisionUnavailable)

\* EtcdKVBase.LoadRevision: ("", RevisionUnavailable) for a key that does not exist
LoadRevision(etcd, key) ==
    IF key \notin DOMAIN etcd.kvs
    THEN [value |-> <<>>, revision |-> RevisionUnavailable]
    ELSE [value |-> etcd.kvs[key],
          revision |-> IF key = KeySpacePath THEN etcd.modRevision ELSE 0]

\* EtcdKVBase.Load
Load(etcd, key) == LoadRevision(etcd, key).value

\* EtcdKVBase.Save and SaveWithTTL: a put, which takes the next revision of the store
Save(etcd, key, value) ==
    Etcd(etcd.revision + 1,
         [k \in DOMAIN etcd.kvs \cup {key} |-> IF k = key THEN value ELSE etcd.kvs[k]],
         IF key = KeySpacePath THEN etcd.revision + 1 ELSE etcd.modRevision)

\* EtcdKVBase.Remove: a delete, which takes a revision when it deletes a key
Remove(etcd, key) ==
    IF key \notin DOMAIN etcd.kvs
    THEN etcd
    ELSE Etcd(etcd.revision + 1,
              [k \in DOMAIN etcd.kvs \ {key} |-> etcd.kvs[k]],
              IF key = KeySpacePath THEN RevisionUnavailable ELSE etcd.modRevision)

\* strconv.FormatUint(safePoint, 16)
RECURSIVE FormatUint16(_)
FormatUint16(n) ==
    IF n < 16 THEN <<n>> ELSE FormatUint16(n \div 16) \o <<n % 16>>

\* strconv.ParseUint(value, 16, 64) of a string of digits
RECURSIVE ParseUint16(_)
ParseUint16(value) ==
    IF Len(value) = 1
    THEN value[1]
    ELSE 16 * ParseUint16(SubSeq(value, 1, Len(value) - 1)) + value[Len(value)]

\* StorageEndpoint.SaveKeySpaceGCSafePoint
SaveKeySpaceGCSafePoint(etcd, safePoint) ==
    Save(etcd, KeySpaceGCSafePointPath, FormatUint16(safePoint))

\* StorageEndpoint.LoadKeySpaceGCSafePoint: 0 when there is none
LoadKeySpaceGCSafePoint(etcd) ==
    LET value == Load(etcd, KeySpaceGCSafePointPath)
    IN  IF value = <<>> THEN 0 ELSE ParseUint16(value)

\* endpoint.ServiceSafePoint, json.Marshal and json.Unmarshal of one, and the nil one.
\* The services are numbered in the documents
ServiceSafePoint(serviceID, safePoint) == [ServiceID |-> serviceID, SafePoint |-> safePoint]
NilServiceSafePoint == ServiceSafePoint("", 0)
Marshal(ssp) == <<IF ssp.ServiceID = "br" THEN 1 ELSE 2, ssp.SafePoint>>
Unmarshal(value) == ServiceSafePoint(IF value[1] = 1 THEN "br" ELSE "cdc", value[2])

\* StorageEndpoint.SaveServiceSafePoint
SaveServiceSafePoint(etcd, ssp) ==
    Save(etcd, KeySpaceServiceSafePointPath(ssp.ServiceID), Marshal(ssp))

\* StorageEndpoint.LoadServiceSafePoint: nil when the service has none
LoadServiceSafePoint(etcd, serviceID) ==
    LET value == Load(etcd, KeySpaceServiceSafePointPath(serviceID))
    IN  IF value = <<>> THEN NilServiceSafePoint ELSE Unmarshal(value)

\* StorageEndpoint.LoadMinServiceSafePoint: the service safe point with the least
\* safe point, nil when there is none
LoadMinServiceSafePoint(etcd) ==
    LET values == {LoadServiceSafePoint(etcd, s) :
                      s \in {x \in Services : KeySpaceServiceSafePointPath(x) \in DOMAIN etcd.kvs}}
    IN  IF values = {}
        THEN NilServiceSafePoint
        ELSE CHOOSE min \in values : \A ssp \in values : min.SafePoint <= ssp.SafePoint

\* StorageEndpoint.RemoveServiceSafePoint
RemoveServiceSafePoint(etcd, serviceID) ==
    Remove(etcd, KeySpaceServiceSafePointPath(serviceID))

\* GcServer.getKeySpaceRevision
getKeySpaceRevision(etcd) == LoadRevision(etcd, KeySpacePath).revision

\* touchKeySpaceRevision leaving the key space as it is
touchKeySpaceRevisionNever(etcd) == etcd

\* GcServer.touchKeySpaceRevision
touchKeySpaceRevision(etcd) == Save(etcd, KeySpacePath, <<>>)

\* what a handler leaves: the store, whether it returned a response (and not an
\* error), and the response: the type of the error in its header ("OK" for none) and
\* the fields the handler sets
Response(header, succeeded, newSafePoint, oldSafePoint, gcSafePoint, safePoint, revision) ==
    [header |-> header, Succeeded |-> succeeded, NewSafePoint |-> newSafePoint,
     OldSafePoint |-> oldSafePoint, GcSafePoint |-> gcSafePoint,
     SafePoint |-> safePoint, Revision |-> revision]
NoResponse == Response("none", FALSE, 0, 0, 0, 0, 0)
Handled(etcd, response) == [etcd |-> etcd, ok |-> TRUE, response |-> response]
Failed(etcd) == [etcd |-> etcd, ok |-> FALSE, response |-> NoResponse]

\* A handler is given where its storage fails: nowhere ("none"), at its first read,
\* at its first write, or at its second write ("write2")

\* GcServer.GetMinServiceSafePoint
GetMinServiceSafePoint(etcd, fail) ==
    IF fail = "read"
    THEN Failed(etcd)
    ELSE Handled(etcd, Response("OK", FALSE, 0, 0, 0,
                                LoadMinServiceSafePoint(etcd).SafePoint,
                                getKeySpaceRevision(etcd)))

\* UpdateGCSafePoint without the comparison with the stored safe point
UpdateGCSafePointUnchecked(etcd, requestSafePoint, requestRevision, fail) ==
    LET currentRevision == getKeySpaceRevision(etcd)
    IN  IF fail = "read"
        THEN Failed(etcd)
        ELSE IF currentRevision # requestRevision
        THEN Handled(etcd, Response("REVISION_MISMATCH", FALSE, 0, 0, 0, 0, 0))
        ELSE IF fail = "write"
        THEN Failed(etcd)
        ELSE Handled(SaveKeySpaceGCSafePoint(etcd, requestSafePoint),
                     Response("OK", TRUE, requestSafePoint, 0, 0, 0, 0))

\* GcServer.UpdateGCSafePoint
UpdateGCSafePoint(etcd, requestSafePoint, requestRevision, fail) ==
    LET currentRevision == getKeySpaceRevision(etcd)
        oldSafePoint == LoadKeySpaceGCSafePoint(etcd)
    IN  IF fail = "read"
        THEN Failed(etcd)
        ELSE IF currentRevision # requestRevision
        THEN Handled(etcd, Response("REVISION_MISMATCH", FALSE, 0, 0, 0, 0, 0))
        ELSE IF requestSafePoint < oldSafePoint
        THEN Handled(etcd, Response("SAFEPOINT_ROLLBACK", FALSE, oldSafePoint, 0, 0, 0, 0))
        ELSE IF fail = "write"
        THEN Failed(etcd)
        ELSE Handled(SaveKeySpaceGCSafePoint(etcd, requestSafePoint),
                     Response("OK", TRUE, requestSafePoint, 0, 0, 0, 0))

\* UpdateServiceSafePoint taking 0 as the lower bound of a service without a safe
\* point
UpdateServiceSafePointFromZero(etcd, requestServiceID, requestTTL, requestSafePoint, fail) ==
    LET oldServiceSafePoint == LoadServiceSafePoint(etcd, requestServiceID)
        gcSafePoint == LoadKeySpaceGCSafePoint(etcd)
        isNew == oldServiceSafePoint = NilServiceSafePoint
        safePointLowerBound == IF isNew THEN 0 ELSE oldServiceSafePoint.SafePoint
        oldSafePoint == IF isNew THEN 0 ELSE oldServiceSafePoint.SafePoint
        touched == IF isNew THEN touchKeySpaceRevision(etcd) ELSE etcd
    IN  IF requestTTL <= 0
        THEN IF fail = "write"
             THEN Failed(etcd)
             ELSE Handled(RemoveServiceSafePoint(etcd, requestServiceID),
                          Response("OK", TRUE, 0, 0, 0, 0, 0))
        ELSE IF fail = "read"
        THEN Failed(etcd)
        ELSE IF requestSafePoint < safePointLowerBound
        THEN Handled(etcd, Response("SAFEPOINT_ROLLBACK", FALSE, 0, oldSafePoint,
                                    gcSafePoint, 0, 0))
        ELSE IF isNew /\ fail = "write"
        THEN Failed(etcd)
        ELSE IF (isNew /\ fail = "write2") \/ (~isNew /\ fail = "write")
        THEN Failed(touched)
        ELSE Handled(SaveServiceSafePoint(touched,
                         ServiceSafePoint(requestServiceID, requestSafePoint)),
                     Response("OK", TRUE, requestSafePoint, oldSafePoint, gcSafePoint, 0, 0))

\* GcServer.UpdateServiceSafePoint
UpdateServiceSafePoint(etcd, requestServiceID, requestTTL, requestSafePoint, fail) ==
    LET oldServiceSafePoint == LoadServiceSafePoint(etcd, requestServiceID)
        gcSafePoint == LoadKeySpaceGCSafePoint(etcd)
        isNew == oldServiceSafePoint = NilServiceSafePoint
        safePointLowerBound == IF isNew THEN gcSafePoint ELSE oldServiceSafePoint.SafePoint
        oldSafePoint == IF isNew THEN 0 ELSE oldServiceSafePoint.SafePoint
        touched == IF isNew THEN touchKeySpaceRevision(etcd) ELSE etcd
    IN  IF requestTTL <= 0
        THEN IF fail = "write"
             THEN Failed(etcd)
             ELSE Handled(RemoveServiceSafePoint(etcd, requestServiceID),
                          Response("OK", TRUE, 0, 0, 0, 0, 0))
        ELSE IF fail = "read"
        THEN Failed(etcd)
        ELSE IF requestSafePoint < safePointLowerBound
        THEN Handled(etcd, Response("SAFEPOINT_ROLLBACK", FALSE, 0, oldSafePoint,
                                    gcSafePoint, 0, 0))
        ELSE IF isNew /\ fail = "write"
        THEN Failed(etcd)
        ELSE IF (isNew /\ fail = "write2") \/ (~isNew /\ fail = "write")
        THEN Failed(touched)
        ELSE Handled(SaveServiceSafePoint(touched,
                         ServiceSafePoint(requestServiceID, requestSafePoint)),
                     Response("OK", TRUE, requestSafePoint, oldSafePoint, gcSafePoint, 0, 0))

\* the last RPC: its name, its request, whether it returned a response and the
\* response
GcCall(rpc, serviceID, ttl, safePoint, revision, ok, response) ==
    [rpc |-> rpc, ServiceId |-> serviceID, TTL |-> ttl, SafePoint |-> safePoint,
     Revision |-> revision, ok |-> ok, response |-> response]
NoGcCall == GcCall("none", "", 0, 0, 0, FALSE, NoResponse)

\* what the client of UpdateGCSafePoint has seen: the revision the last
\* GetMinServiceSafePoint returned and whether a service without a safe point has
\* registered one since
Seen(asked, revision, registered) ==
    [asked |-> asked, revision |-> revision, registered |-> registered]
NothingSeen == Seen(FALSE, 0, FALSE)

----------------------------------------------------------------------------
(* The transactions of the etcd-backed KV (server/storage/kv/etcd_kv.go).  The etcd   *)
(* server is a collaborator: a get, a comparison of a value and the commit of a      *)
(* transaction are modelled by what etcd does with them.                              *)

\* the keys users give, in the order etcd keeps them; a range may end one past the last
TxnKeys == 1..MaxTxnKey

\* kv.rootPath
RootPath == "/pd"

\* path.Join(kv.rootPath, key), and strings.Join([]string{kv.rootPath, key}, "/") for
\* the ends of a range
FullKey(key) == <<RootPath, key>>

\* strings.TrimPrefix(strings.TrimPrefix(string(item.Key), kv.rootPath), "/")
TrimKey(fullKey) == IF fullKey[1] = RootPath THEN fullKey[2] ELSE fullKey

\* the values users save: the empty string and another one
TxnValues == {"", "a"}

\* what the store holds under a key that does not exist
Absent == "<absent>"

\* the store of an etcd without keys
EmptyKv == [fullKey \in {FullKey(k) : k \in TxnKeys} |-> Absent]

\* resp.Kvs of etcdutil.EtcdKVGet for one key
EtcdKVGet(kv, fullKey) ==
    IF kv[fullKey] = Absent THEN <<>> ELSE <<[Key |-> fullKey, Value |-> kv[fullKey]]>>

\* resp.Kvs of etcdutil.EtcdKVGet with WithRange(endKey) and WithLimit(limit): the keys
\* of [key, endKey) in order, the first limit of them when limit is positive
RECURSIVE EtcdKVGetRange(_, _, _, _)
EtcdKVGetRange(kv, key, endKey, limit) ==
    IF key[2] >= endKey[2] \/ key[2] > MaxTxnKey
    THEN <<>>
    ELSE LET rest == EtcdKVGetRange(kv, FullKey(key[2] + 1), endKey,
                                    IF limit > 0 /\ kv[key] # Absent THEN limit - 1 ELSE limit)
             kvs == EtcdKVGet(kv, key)
         IN  IF kvs = <<>> THEN rest
             ELSE IF limit = 1 THEN kvs
             ELSE kvs \o rest

\* clientv3.Compare(clientv3.Value(fullKey), "=", value)
Compare(fullKey, value) == [Key |-> fullKey, Value |-> value]

\* etcd applies a comparison of a value: it fails on a key that does not exist
applyCompare(kv, cmp) == kv[cmp.Key] # Absent /\ kv[cmp.Key] = cmp.Value

\* clientv3.OpPut(key, value) and clientv3.OpDelete(key)
OpPut(fullKey, value) == [type |-> "put", Key |-> fullKey, Value |-> value]
OpDelete(fullKey) == [type |-> "delete", Key |-> fullKey, Value |-> ""]

\* etcd applies the operations of a transaction, all of them
RECURSIVE applyOps(_, _)
applyOps(kv, ops) ==
    IF ops = <<>>
    THEN kv
    ELSE applyOps([kv EXCEPT ![Head(ops).Key] =
                       IF Head(ops).type = "put" THEN Head(ops).Value ELSE Absent],
                  Tail(ops))

\* etcd refuses a transaction that writes a key twice
duplicateKey(ops) == \E i, j \in DOMAIN ops : i # j /\ ops[i].Key = ops[j].Key

\* Txn.If(conditions...).Then(operations...).Commit(): the response and the store after
TxnResponse(kv, err, succeeded) == [kv |-> kv, err |-> err, Succeeded |-> succeeded]
EtcdTxnCommit(kv, conditions, operations, fail) ==
    IF fail \/ duplicateKey(operations)
    THEN TxnResponse(kv, TRUE, FALSE)
    ELSE IF \A i \in DOMAIN conditions : applyCompare(kv, conditions[i])
    THEN TxnResponse(applyOps(kv, operations), FALSE, TRUE)
    ELSE TxnResponse(kv, FALSE, FALSE)

\* etcdKVBase.Load
KvLoad(kv, key, fail) ==
    LET kvs == EtcdKVGet(kv, FullKey(key))
    IN  IF fail THEN [value |-> "", err |-> TRUE]
        ELSE IF Len(kvs) = 0 THEN [value |-> "", err |-> FALSE]
        ELSE [value |-> kvs[1].Value, err |-> FALSE]

\* etcdKVBase.LoadRange
KvLoadRange(kv, key, endKey, limit, fail) ==
    LET kvs == EtcdKVGetRange(kv, FullKey(key), FullKey(endKey), limit)
    IN  IF fail THEN [keys |-> <<>>, values |-> <<>>, err |-> TRUE]
        ELSE [keys |-> [i \in DOMAIN kvs |-> TrimKey(kvs[i].Key)],
              values |-> [i \in DOMAIN kvs |-> kvs[i].Value],
              err |-> FALSE]

\* etcdKVBase.Save: a transaction without conditions
KvSave(kv, key, value) == EtcdTxnCommit(kv, <<>>, <<OpPut(FullKey(key), value)>>, FALSE).kv

\* etcdKVBase.Remove
KvRemove(kv, key) == EtcdTxnCommit(kv, <<>>, <<OpDelete(FullKey(key))>>, FALSE).kv

\* etcdTxn: the conditions and the operations recorded, with the calls made and, of
\* every LoadRange, the range asked and the keys and values it returned
EtcdTxn(running, conditions, operations, calls, loaded, disturbed) ==
    [running |-> running, conditions |-> conditions, operations |-> operations,
     calls |-> calls, loaded |-> loaded, disturbed |-> disturbed]

\* no RunInTxn is running
NoTxn == EtcdTxn(FALSE, <<>>, <<>>, 0, <<>>, FALSE)

\* txn := &etcdTxn{kv: kv, ctx: ctx} of RunInTxn
NewTxn == EtcdTxn(TRUE, <<>>, <<>>, 0, <<>>, FALSE)

\* etcdTxn.Save
TxnSave(t, key, value) ==
    [t EXCEPT !.operations = Append(@, OpPut(FullKey(key), value)), !.calls = @ + 1]

\* etcdTxn.Remove
TxnRemove(t, key) ==
    [t EXCEPT !.operations = Append(@, OpDelete(FullKey(key))), !.calls = @ + 1]

\* etcdTxn.Load: the value of the base Load, and the comparison of the key with it
TxnLoad(t, kv, key, fail) ==
    LET got == KvLoad(kv, key, fail)
    IN  IF got.err
        THEN [t EXCEPT !.calls = @ + 1]
        ELSE [t EXCEPT !.conditions = Append(@, Compare(FullKey(key), got.value)),
                       !.calls = @ + 1]

\* etcdTxn.LoadRange: one comparison for every key loaded
TxnLoadRange(t, kv, key, endKey, limit, fail) ==
    LET got == KvLoadRange(kv, key, endKey, limit, fail)
    IN  IF got.err
        THEN [t EXCEPT !.calls = @ + 1]
        ELSE [t EXCEPT !.conditions =
                           @ \o [i \in DOMAIN got.keys |->
                                    Compare(FullKey(got.keys[i]), got.values[i])],
                       !.loaded = Append(@, [key |-> key, endKey |-> endKey,
                                             limit |-> limit, keys |-> got.keys,
                                             values |-> got.values]),
                       !.calls = @ + 1]

\* etcdTxn.commit: the error it returns and the store after
commit(t, kv, fail) ==
    LET resp == EtcdTxnCommit(kv, t.conditions, t.operations, fail)
    IN  IF resp.err THEN [kv |-> resp.kv, err |-> "etcd"]
        ELSE IF ~resp.Succeeded THEN [kv |-> resp.kv, err |-> "ErrEtcdTxnConflict"]
        ELSE [kv |-> resp.kv, err |-> "nil"]

\* what a call on the etcdTxn, or RunInTxn, returned, and the operations the
\* transaction held at its return
TxnRet(call, key, value, err, operations) ==
    [call |-> call, key |-> key, value |-> value, err |-> err, operations |-> operations]

\* nothing called yet
NoTxnRet == TxnRet("none", 0, "", "nil", <<>>)

----------------------------------------------------------------------------
(* The retry quota of the schedulers (newRetryQuota in package schedulers), as its    *)
(* test describes it.                                                                 *)

\* the stores that are given to the quota
QuotaStores == 1..MaxQuotaStore

\* retryQuota.initialLimit, minLimit and attenuation
retryQuotaInitialLimit == 10
retryQuotaMinLimit == 1
retryQuotaAttenuation == 2

\* newRetryQuota: no store has a record
NoLimits == <<>>

\* retryQuota.getLimit: the limit it returns, and the limits after
getLimit(limits, store) ==
    IF store \in DOMAIN limits
    THEN [limit |-> limits[store], limits |-> limits]
    ELSE [limit |-> retryQuotaInitialLimit,
          limits |-> [s \in DOMAIN limits \cup {store} |->
                         IF s = store THEN retryQuotaInitialLimit ELSE limits[s]]]

\* retryQuota.resetLimit
resetLimit(limits, store) ==
    [s \in DOMAIN limits \cup {store} |->
        IF s = store THEN retryQuotaInitialLimit ELSE limits[s]]

attenuatedLimitWithoutFloor(limit) == limit \div retryQuotaAttenuation

\* the limit after one attenuation: the integer quotient, not below the least limit
attenuatedLimit(limit) ==
    IF limit \div retryQuotaAttenuation < retryQuotaMinLimit
    THEN retryQuotaMinLimit
    ELSE limit \div retryQuotaAttenuation

\* retryQuota.attenuate
attenuate(limits, store) ==
    LET got == getLimit(limits, store)
    IN  [got.limits EXCEPT ![store] = attenuatedLimit(got.limit)]

\* retryQuota.gc: the records of the stores that are not kept are deleted
gc(limits, keepStores) == [s \in DOMAIN limits \cap keepStores |-> limits[s]]

\* a call on the quota: its name, its store or stores, and the limit it returned
QuotaCall(call, stores, limit) == [call |-> call, stores |-> stores, limit |-> limit]

\* nothing called yet
NoQuotaCall == QuotaCall("none", {}, 0)

----------------------------------------------------------------------------
(* The evict-slow-store scheduler and the balance-leader scheduler over the cluster   *)
(* of their test: stores 1, 2, 3; region 1 with its leader on store 1 and a follower  *)
(* on store 2, region 2 with its leader on store 2 and a follower on store 1.  The    *)
(* schedulers are followed as their test uses them                                    *)

\* suite.tc.AddLeaderStore(1, 0), (2, 0), (3, 0)
EvictStores == {1, 2, 3}

\* suite.tc.AddLeaderRegion(1, 1, 2) and (2, 2, 1): the leader first
EvictRegionPeers == <<<<1, 2>>, <<2, 1>>>>

\* the leaders of a store after suite.tc.UpdateLeaderCount(2, 16)
EvictLeaderCount == <<1, 16, 0>>

\* the slow score at which a store is evicted, and the one at which it has recovered
slowStoreEvictThreshold == 100
slowStoreRecoverThreshold == 0

\* evictSlowStoreSchedulerConfig.EvictedStores of a scheduler without evicted store
NoEvictedStores == <<>>

\* the value in the storage before the configuration was ever persisted
NotPersisted == <<0>>

\* conf.evictStore(): the evicted store, 0 for none
evictStore(evictedStores) == IF Len(evictedStores) = 0 THEN 0 ELSE evictedStores[1]

\* conf.Persist(): the configuration in the storage after, and the error
Persist(evictedStores, storage, fail) ==
    IF fail THEN [storage |-> storage, err |-> TRUE]
    ELSE [storage |-> evictedStores, err |-> FALSE]

\* conf.setStoreAndPersist(id)
setStoreAndPersist(storage, id, fail) ==
    [EvictedStores |-> <<id>>, persisted |-> Persist(<<id>>, storage, fail)]

\* conf.clearAndPersist()
clearAndPersist(evictedStores, storage, fail) ==
    IF evictStore(evictedStores) > 0
    THEN [EvictedStores |-> NoEvictedStores, oldID |-> evictStore(evictedStores),
          persisted |-> Persist(NoEvictedStores, storage, fail)]
    ELSE [EvictedStores |-> evictedStores, oldID |-> 0,
          persisted |-> [storage |-> storage, err |-> FALSE]]

\* an operator that transfers the leader of a region from a store to one of the targets
TransferLeader(desc, region, from, targets) ==
    [desc |-> desc, region |-> region, from |-> from, targets |-> targets]

\* the stores of the followers of a region
EvictFollowers(region) ==
    {EvictRegionPeers[region][i] : i \in 2..Len(EvictRegionPeers[region])}

\* s.schedulerEvictLeader(cluster): a multi-target transfer-leader for every region
\* whose leader is on the evicted store and that has a follower on a store that takes
\* leaders
schedulerEvictLeader(evictedStores, paused) ==
    {TransferLeader("evict-slow-store", region, evictStore(evictedStores),
                    EvictFollowers(region) \ paused) :
        region \in {r \in DOMAIN EvictRegionPeers :
                       /\ EvictRegionPeers[r][1] = evictStore(evictedStores)
                       /\ EvictFollowers(r) \ paused # {}}}

\* the state the schedulers work on, and what a Schedule returned
EvictState(evictedStores, storage, paused, ops) ==
    [EvictedStores |-> evictedStores, storage |-> storage, paused |-> paused, ops |-> ops]

\* s.prepareEvictLeader(cluster, storeID), then the eviction: when the configuration
\* cannot be persisted the cluster is not told and no operator is made
prepareEvictLeaderIgnoringError(evictedStores, storage, paused, storeID, fail) ==
    LET set == setStoreAndPersist(storage, storeID, fail)
    IN  EvictState(set.EvictedStores, set.persisted.storage, paused \cup {storeID},
                   schedulerEvictLeader(set.EvictedStores, paused \cup {storeID}))

prepareEvictLeader(evictedStores, storage, paused, storeID, fail) ==
    LET set == setStoreAndPersist(storage, storeID, fail)
    IN  IF set.persisted.err
        THEN EvictState(set.EvictedStores, set.persisted.storage, paused, {})
        ELSE EvictState(set.EvictedStores, set.persisted.storage, paused \cup {storeID},
                        schedulerEvictLeader(set.EvictedStores, paused \cup {storeID}))

\* s.cleanupEvictLeader(cluster): the record is cleared and the cluster is told that
\* the store has recovered
cleanupEvictLeaderKeepingPause(evictedStores, storage, paused, fail) ==
    LET cleared == clearAndPersist(evictedStores, storage, fail)
    IN  EvictState(cleared.EvictedStores, cleared.persisted.storage, paused, {})

cleanupEvictLeader(evictedStores, storage, paused, fail) ==
    LET cleared == clearAndPersist(evictedStores, storage, fail)
    IN  EvictState(cleared.EvictedStores, cleared.persisted.storage,
                   paused \ {cleared.oldID}, {})

\* the stores whose slow score has reached the eviction level
SlowStores(scores) == {s \in EvictStores : scores[s] >= slowStoreEvictThreshold}

\* evictSlowStoreScheduler.Schedule.  With a recorded store: it goes on evicting unless
\* the score of the store has recovered and the recovery gap has passed
\* (conf.readyForRecovery()), and then it cleans up and returns nothing.  Without: it
\* looks for the slow store and prepares its eviction
evictSlowStoreSchedule(scores, evictedStores, storage, paused, ready, fail) ==
    IF evictStore(evictedStores) # 0
    THEN IF scores[evictStore(evictedStores)] <= slowStoreRecoverThreshold /\ ready
         THEN cleanupEvictLeader(evictedStores, storage, paused, fail)
         ELSE EvictState(evictedStores, storage, paused,
                         schedulerEvictLeader(evictedStores, paused))
    ELSE IF Cardinality(SlowStores(scores)) # 1
         THEN EvictState(evictedStores, storage, paused, {})
         ELSE prepareEvictLeader(evictedStores, storage, paused,
                                 CHOOSE s \in SlowStores(scores) : TRUE, fail)

\* s.PrepareConfig(cluster): the cluster is told of the recorded store
PrepareConfig(evictedStores, paused) ==
    IF evictStore(evictedStores) # 0 THEN paused \cup {evictStore(evictedStores)} ELSE paused

\* balanceLeaderScheduler.Schedule: the transfers of a leader from a store to a store
\* with fewer leaders that has a follower of the region and takes leaders
balanceLeaderSchedule(paused) ==
    {TransferLeader("balance-leader", c[1], EvictRegionPeers[c[1]][1], {c[2]}) :
        c \in {x \in (DOMAIN EvictRegionPeers) \X EvictStores :
                  /\ x[2] \in EvictFollowers(x[1]) \ paused
                  /\ EvictLeaderCount[EvictRegionPeers[x[1]][1]] > EvictLeaderCount[x[2]]}}

\* a call of Schedule: its scheduler, whether the recovery gap had passed, and the
\* operators it returned
EvictCall(scheduler, ready, ops) == [scheduler |-> scheduler, ready |-> ready, ops |-> ops]

\* nothing called yet
NoEvictCall == EvictCall("none", FALSE, {})

----------------------------------------------------------------------------
(* The scheduler as a state machine *)

NoCall == [ops |-> <<>>, collected |-> {}]

\* the goroutines that call Schedule
Workers == 1..NumWorkers

\* stLoadInfos[ty] before the first refresh: a map without stores
NoDetail == <<>>

\* lastCall before the first dispatch
NoDispatch == [rw |-> "none", forbidden |-> FALSE]
Returned(ops, collected) == [ops |-> ops, collected |-> collected]

InitScheduler ==
    /\ regionPendings = <<>>
    /\ now = 0
    /\ regionSize = [r \in Regions |-> "small"]
    /\ called = FALSE
    /\ ret = NoCall
    /\ scheduleLimit = MaxScheduleLimit
    /\ limited = FALSE
    /\ stLoadInfos = [ty \in ResourceTypes |-> NoDetail]
    /\ updateReadTime = ZeroTime
    /\ updateWriteTime = ZeroTime
    /\ lastCall = NoDispatch
    /\ pc = [w \in Workers |-> "idle"]
    /\ lockHolder = 0
    /\ rngState = "intact"
    /\ drawn = [w \in Workers |-> "none"]
    /\ srcCall = NoFilter
    /\ dstCall = NoDstFilter
    /\ tolCall = NoCheck
    /\ peerCall = NoPeerFilter
    /\ splitCall = NoSplit
    /\ gcEtcd = EmptyEtcd
    /\ gcCall = NoGcCall
    /\ gcSeen = NothingSeen
    /\ txnKv = EmptyKv
    /\ txn = NoTxn
    /\ txnRet = NoTxnRet
    /\ quotaLimits = NoLimits
    /\ quotaCall = NoQuotaCall
    /\ slowScore = [s \in EvictStores |-> 0]
    /\ evictConf = NoEvictedStores
    /\ evictStorage = NotPersisted
    /\ evictPaused = {}
    /\ persistFail = FALSE
    /\ evictCall = NoEvictCall
    /\ sortLoop = NoSortLoop
    /\ gcMins = {}

\* the scheduler after construction, with the detail of a store without hot peers
Init ==
    /\ InitScheduler
    /\ srcDetail = IdleStoreDetail
    /\ dstDetail = RejectedStoreDetail
    /\ tolInput = DefaultTolInput
    /\ peerInput = NoHotPeers
    /\ splitInput = NoSplitInput

\* the stores stLoadInfos holds a detail for once prepareForBalance has run (the
\* first dispatch of a side always refreshes it; the stores and the hot peers of
\* this cluster do not change, so a detail kept for less than statisticsInterval
\* lists what a fresh one would)
stLoadDetail == Stores

isForbidRWType(conf, rw) == conf.forbidRWType = rw

\* a decay pass that drops every entry whose operator has ended
prepareForBalanceDroppingEnded(pendings, t) ==
    [r \in {q \in DOMAIN pendings : ~IsEndStatus(pendings[q].op.status)} |-> pendings[r]]

\* prepareForBalance: the decay pass over the ledger, run on every call
prepareForBalance(pendings, t) == summaryPendingInfluence(pendings, t).regionPendings

\* the (leader solver, peer solver, betterThan) balanceHotReadRegions can meet; the
\* rank's leaderSolver.rank.betterThan(peerSolver.best) is consulted only when both
\* solvers have operators
readSolvers(pendings, conf, sizes) ==
    {x \in solve(pendings, "read", "transferLeader", stLoadDetail, conf, sizes)
           \X solve(pendings, "read", "movePeer", stLoadDetail, conf, sizes)
           \X BOOLEAN : (x[1].ops = <<>> \/ x[2].ops = <<>>) => x[3]}

\* the switch of dispatch without the isForbidRWType cases
balanceIgnoringForbid(decayed, typ, conf, sizes) ==
    LET rw == IF typ \in {"readLeader", "readPeer"} THEN "read" ELSE "write"
    IN  IF rw = "read"
        THEN {balanceHotReadRegions(decayed,
                  Solver("read", "transferLeader", x[1].best, x[1].ops, conf),
                  Solver("read", "movePeer", x[2].best, x[2].ops, conf), x[3]) :
                  x \in readSolvers(decayed, conf, sizes)}
        ELSE LET opTy == IF typ = "writePeer" THEN "movePeer" ELSE "transferLeader"
             IN  {balanceHotWrite(decayed, Solver("write", opTy, b.best, b.ops, conf)) :
                      b \in solve(decayed, "write", opTy, stLoadDetail, conf, sizes)}

\* the switch of dispatch on the resource type, on the ledger prepareForBalance
\* left: every (operators, ledger) the call can end with
balance(decayed, typ, conf, sizes) ==
    LET rw == IF typ \in {"readLeader", "readPeer"} THEN "read" ELSE "write"
    IN  IF isForbidRWType(conf, rw)
        THEN {Outcome(<<>>, decayed)}
        ELSE IF rw = "read"
        THEN {balanceHotReadRegions(decayed,
                  Solver("read", "transferLeader", x[1].best, x[1].ops, conf),
                  Solver("read", "movePeer", x[2].best, x[2].ops, conf), x[3]) :
                  x \in readSolvers(decayed, conf, sizes)}
        ELSE LET opTy == IF typ = "writePeer" THEN "movePeer" ELSE "transferLeader"
             IN  {balanceHotWrite(decayed, Solver("write", opTy, b.best, b.ops, conf)) :
                      b \in solve(decayed, "write", opTy, stLoadDetail, conf, sizes)}

\* dispatch(typ), under the lock of the scheduler and with the configuration conf:
\* prepareForBalance, then the switch on the resource type
dispatchWith(typ, conf) ==
    /\ called' = TRUE
    /\ UNCHANGED <<now, regionSize>>
    /\ \E decayed \in {prepareForBalance(regionPendings, now)} :
           \E out \in balance(decayed, typ, conf, regionSize) :
               /\ regionPendings' = out.regionPendings
               /\ ret' = Returned(out.ops, DOMAIN regionPendings \ DOMAIN decayed)

\* dispatch(typ) under whatever configuration is in force
dispatch(typ) == \E conf \in Configs : dispatchWith(typ, conf)

\* Schedule, called directly: randomType draws a resource type and dispatch runs
Schedule ==
    /\ \E typ \in ResourceTypes : dispatch(typ)
    /\ UNCHANGED extVars

\* time passes
Tick ==
    /\ now < MaxTime
    /\ now' = now + 1
    /\ called' = FALSE
    /\ ret' = NoCall
    /\ lastCall' = NoDispatch
    /\ UNCHANGED <<regionPendings, regionSize, gateVars, refreshVars, concVars, sideVars>>

\* the operator controller runs an operator the scheduler returned to an end status
OperatorEnds(r, status) ==
    /\ r \in DOMAIN regionPendings
    /\ ~IsEndStatus(regionPendings[r].op.status)
    /\ regionPendings' = [regionPendings EXCEPT ![r].op.status = status,
                                                ![r].op.reach = now]
    /\ called' = FALSE
    /\ ret' = NoCall
    /\ lastCall' = NoDispatch
    /\ UNCHANGED <<now, regionSize, gateVars, refreshVars, concVars, sideVars>>

\* a region heartbeat reports another approximate size
RegionHeartbeat(r) ==
    /\ regionSize' = [regionSize EXCEPT ![r] = IF @ = "small" THEN "big" ELSE "small"]
    /\ called' = FALSE
    /\ ret' = NoCall
    /\ lastCall' = NoDispatch
    /\ UNCHANGED <<regionPendings, now, gateVars, refreshVars, concVars, sideVars>>

\* the end statuses the operator controller is seen to reach
ReachedEndStatuses == {"SUCCESS", "CANCELED"}

Next ==
    \/ Schedule
    \/ Tick
    \/ \E r \in Regions, status \in ReachedEndStatuses : OperatorEnds(r, status)
    \/ \E r \in Regions : RegionHeartbeat(r)

Spec == Init /\ [][Next]_vars

----------------------------------------------------------------------------
(* The scheduler under the scheduler controller: every cycle asks IsScheduleAllowed *)
(* and calls Schedule only when it answers true.  The limit does not look at the  *)
(* sizes of the regions, which stay as they are here                              *)

\* the hot-region-schedule-limit values configured
ScheduleLimits == 1..MaxScheduleLimit

\* OpController.OperatorCount(operator.OpHotRegion): the operators of kind
\* OpHotRegion the controller is running, that is the operators the scheduler
\* returned that move a peer or a leader (a split is of kind OpSplit) and have not ended
OperatorCount(pendings) ==
    Cardinality({r \in DOMAIN pendings :
                    pendings[r].op.kind # "split-region" /\ ~IsEndStatus(pendings[r].op.status)})

\* IsScheduleAllowed answering true up to the limit
IsScheduleAllowedInclusive(pendings, limit) == OperatorCount(pendings) <= limit

\* IsScheduleAllowed
IsScheduleAllowed(pendings, limit) == OperatorCount(pendings) < limit

\* one cycle of the scheduler controller
RunScheduler ==
    IF IsScheduleAllowed(regionPendings, scheduleLimit)
    THEN /\ \E typ \in ResourceTypes : dispatch(typ)
         /\ limited' = FALSE
         /\ UNCHANGED <<scheduleLimit, loadVars, concVars, sideVars>>
    ELSE /\ limited' = TRUE
         /\ called' = FALSE
         /\ ret' = NoCall
         /\ UNCHANGED <<regionPendings, now, regionSize, scheduleLimit, loadVars, concVars, sideVars>>

\* the configuration is changed online
SetScheduleLimit(limit) ==
    /\ scheduleLimit' = limit
    /\ scheduleLimit # limit
    /\ called' = FALSE
    /\ ret' = NoCall
    /\ UNCHANGED <<regionPendings, now, regionSize, limited, loadVars, concVars, sideVars>>

GateNext ==
    \/ RunScheduler
    \/ Tick
    \/ \E r \in Regions, status \in ReachedEndStatuses : OperatorEnds(r, status)
    \/ \E limit \in ScheduleLimits : SetScheduleLimit(limit)

GateSpec == Init /\ [][GateNext]_vars

----------------------------------------------------------------------------
(* The refresh of the load details: prepareForBalance rebuilds the details of the  *)
(* read side or of the write side, at most once per statisticsInterval             *)

\* the RW side of a resource type
rwOf(typ) == IF typ \in {"readLeader", "readPeer"} THEN "read" ELSE "write"

\* buildResourceType(rw, LeaderKind) and buildResourceType(rw, RegionKind)
buildResourceType(rw, resource) ==
    toResourceType(rw, IF resource = "LeaderKind" THEN "transferLeader" ELSE "movePeer")

\* the closure prepare of prepareForBalance, for both resource kinds of one side: the
\* details are built from storeInfos, which holds the pending sums of this call
prepare(infos, rw, storeInfos) ==
    [infos EXCEPT ![buildResourceType(rw, "LeaderKind")] = storeInfos,
                  ![buildResourceType(rw, "RegionKind")] = storeInfos]

\* a refresh on every call, of the side of the type
refreshStatisticsAlways(typ, infos, readTime, writeTime, storeInfos, t) ==
    IF rwOf(typ) = "read"
    THEN [stLoadInfos |-> prepare(infos, "read", storeInfos),
          updateReadTime |-> t, updateWriteTime |-> writeTime]
    ELSE [stLoadInfos |-> prepare(infos, "write", storeInfos),
          updateReadTime |-> readTime, updateWriteTime |-> t]

\* a refresh of both sides when the side of the type is due
refreshStatisticsBothSides(typ, infos, readTime, writeTime, storeInfos, t) ==
    IF t - (IF rwOf(typ) = "read" THEN readTime ELSE writeTime) >= StatisticsInterval
    THEN [stLoadInfos |-> [ty \in ResourceTypes |-> storeInfos],
          updateReadTime |-> t, updateWriteTime |-> t]
    ELSE [stLoadInfos |-> infos, updateReadTime |-> readTime, updateWriteTime |-> writeTime]

\* the switch of prepareForBalance on the resource type: stLoadInfos and the two
\* update times as the call at time t leaves them
refreshStatistics(typ, infos, readTime, writeTime, storeInfos, t) ==
    IF rwOf(typ) = "read"
    THEN IF t - readTime >= StatisticsInterval
         THEN [stLoadInfos |-> prepare(infos, "read", storeInfos),
               updateReadTime |-> t, updateWriteTime |-> writeTime]
         ELSE [stLoadInfos |-> infos, updateReadTime |-> readTime,
               updateWriteTime |-> writeTime]
    ELSE IF t - writeTime >= StatisticsInterval
         THEN [stLoadInfos |-> prepare(infos, "write", storeInfos),
               updateReadTime |-> readTime, updateWriteTime |-> t]
         ELSE [stLoadInfos |-> infos, updateReadTime |-> readTime,
               updateWriteTime |-> writeTime]

\* Schedule, with the load details followed
LoadSchedule ==
    /\ \E typ \in ResourceTypes, conf \in Configs :
           /\ dispatchWith(typ, conf)
           /\ lastCall' = [rw |-> rwOf(typ), forbidden |-> isForbidRWType(conf, rwOf(typ))]
           /\ LET storeInfos == summaryPendingInfluence(regionPendings, now).storeInfos
                  after == refreshStatistics(typ, stLoadInfos, updateReadTime,
                                             updateWriteTime, storeInfos, now)
              IN  /\ stLoadInfos' = after.stLoadInfos
                  /\ updateReadTime' = after.updateReadTime
                  /\ updateWriteTime' = after.updateWriteTime
    /\ UNCHANGED <<gateVars, concVars, sideVars>>

\* time passes, up to MaxLoadTime
LoadTick == now < MaxLoadTime /\ Tick

LoadNext ==
    \/ LoadSchedule
    \/ LoadTick
    \/ \E r \in Regions : OperatorEnds(r, "SUCCESS")

LoadSpec == Init /\ [][LoadNext]_vars

----------------------------------------------------------------------------
(* Several workers calling Schedule on one scheduler: Schedule calls randomType,  *)
(* then dispatch, which takes the lock of the scheduler and holds it to its end   *)

\* worker w calls Schedule and enters randomType: s.r.Int() starts to read and to
\* advance the generator
Call(w) ==
    /\ pc[w] = "idle"
    /\ pc' = [pc EXCEPT ![w] = "randomType"]
    /\ called' = FALSE
    /\ ret' = NoCall
    /\ UNCHANGED <<regionPendings, now, regionSize, gateVars, loadVars, sideVars,
                   lockHolder, rngState, drawn>>

\* s.r.Int() returns and randomType gives a resource type.  rand.Rand is not safe
\* for concurrent use: when another worker is inside it at the same time the
\* generator may be left as it should be or not
randomType(w) ==
    /\ pc[w] = "randomType"
    /\ pc' = [pc EXCEPT ![w] = "Lock"]
    /\ \E typ \in ResourceTypes : drawn' = [drawn EXCEPT ![w] = typ]
    /\ IF \E v \in Workers \ {w} : pc[v] = "randomType"
       THEN rngState' \in {rngState, "raced"}
       ELSE rngState' = rngState
    /\ called' = FALSE
    /\ ret' = NoCall
    /\ UNCHANGED <<regionPendings, now, regionSize, gateVars, loadVars, sideVars, lockHolder>>

\* s.Lock() of dispatch
Lock(w) ==
    /\ pc[w] = "Lock"
    /\ lockHolder = 0
    /\ lockHolder' = w
    /\ pc' = [pc EXCEPT ![w] = "dispatch"]
    /\ called' = FALSE
    /\ ret' = NoCall
    /\ UNCHANGED <<regionPendings, now, regionSize, gateVars, loadVars, sideVars,
                   rngState, drawn>>

\* the body of dispatch, which reads and writes stLoadInfos and regionPendings, and
\* the deferred s.Unlock()
Dispatch(w) ==
    /\ pc[w] = "dispatch"
    /\ dispatch(drawn[w])
    /\ lockHolder' = 0
    /\ pc' = [pc EXCEPT ![w] = "idle"]
    /\ drawn' = [drawn EXCEPT ![w] = "none"]
    /\ UNCHANGED <<gateVars, loadVars, sideVars, rngState>>

ConcNext ==
    \E w \in Workers : Call(w) \/ randomType(w) \/ Lock(w) \/ Dispatch(w)

ConcSpec == Init /\ [][ConcNext]_vars

----------------------------------------------------------------------------
(* filterSrcStores on the loads of one store, drawn at the start, next to a store *)
(* that has no hot peer                                                           *)

\* the loads a detail can hold on a dimension: 1.1, 1.2 and 1.3 times the expected
SrcLoads == {ExpectLoad + 1, ExpectLoad + 2, ExpectLoad + 3}

\* the history samples of a dimension: the last one above the tolerance or below
SrcSamples == {<<ExpectLoad + 3, ExpectLoad + 1>>, <<ExpectLoad + 3, ExpectLoad + 3>>}

\* the details drawn for the store
SrcDetails ==
    {StoreDetail(n, tiflash, minLoads, history) :
        n \in 0..MaxHotPeers, tiflash \in BOOLEAN, minLoads \in [Dims -> SrcLoads],
        history \in {<<>>} \cup [Dims -> SrcSamples]}

\* the solvers that filter: a write-peer and a read-leader search, byte then key or
\* query then byte as priorities, every check policy
SrcSolvers ==
    {SrcSolver(t[1], t[2], d[1], d[2], policy, tiflash) :
        t \in {<<"write", "movePeer">>, <<"read", "transferLeader">>},
        d \in {<<0, 1>>, <<2, 0>>},
        policy \in {"AllOf", "AnyOf", "FirstOnly"},
        tiflash \in BOOLEAN}

\* bs.stLoadDetail: the store followed and a second store without hot peers
SrcStLoadDetail == [id \in {1, 2} |-> IF id = 1 THEN srcDetail ELSE IdleStoreDetail]

SrcInit ==
    /\ InitScheduler
    /\ srcDetail \in SrcDetails
    /\ dstDetail = RejectedStoreDetail
    /\ tolInput = DefaultTolInput
    /\ peerInput = NoHotPeers
    /\ splitInput = NoSplitInput

\* a solver filters the source stores
FilterSrc ==
    /\ \E bs \in SrcSolvers :
           srcCall' = [bs |-> bs, admitted |-> filterSrcStoresByLoad(bs, SrcStLoadDetail)]
    /\ UNCHANGED <<regionPendings, now, regionSize, called, ret, gateVars, loadVars,
                   concVars, srcDetail, dstVars, tolVars, peerVars,
                   restVars>>

SrcNext == FilterSrc

SrcSpec == SrcInit /\ [][SrcNext]_vars

----------------------------------------------------------------------------
(* filterDstStores on one candidate store, whose detail and filter verdicts are   *)
(* drawn at the start, next to the store of the main peer                         *)

\* the max loads a detail can hold on a dimension: 0.7 and 0.9 times the expected
DstLoads == {ExpectLoad - 3, ExpectLoad - 1}

\* the history of a candidate: none, every sample below the tolerance, or the last
\* sample of the key dimension above it
DstHistories ==
    {<<>>,
     [i \in Dims |-> <<ExpectLoad - 3, ExpectLoad - 3>>],
     [i \in Dims |-> IF i = 1 THEN <<ExpectLoad - 3, ExpectLoad - 1>>
                              ELSE <<ExpectLoad - 3, ExpectLoad - 3>>]}

\* the details drawn for the candidate: a store without a peer of the region or with
\* a follower, whatever the filters answer for it
DstDetails ==
    {DstStoreDetail(tiflash, peer, passes, maxLoads, history) :
        tiflash \in BOOLEAN, peer \in {"none", "follower"},
        passes \in SUBSET (FilterNames \ {"Excluded"}),
        maxLoads \in [Dims -> DstLoads], history \in DstHistories}

\* the solvers that filter: every resource type, byte then key as priorities, every
\* check policy
DstSolvers ==
    {SrcSolver(t[1], t[2], 0, 1, policy, tiflash) :
        t \in RWTypes \X OpTypes,
        policy \in {"AllOf", "AnyOf", "FirstOnly"},
        tiflash \in BOOLEAN}

\* the detail of the store of the main peer: every filter but the excluded one passes
\* it and its loads are below the tolerance
MainStoreDetail(mainIsLeader) ==
    DstStoreDetail(FALSE, IF mainIsLeader THEN "leader" ELSE "follower",
                   FilterNames \ {"Excluded"}, [i \in Dims |-> ExpectLoad - 3], <<>>)

\* bs.stLoadDetail: the candidate followed is store 1, the main peer is on store 2
DstStLoadDetail(mainIsLeader) ==
    [id \in {1, 2} |-> IF id = 1 THEN dstDetail ELSE MainStoreDetail(mainIsLeader)]

DstInit ==
    /\ InitScheduler
    /\ srcDetail = IdleStoreDetail
    /\ dstDetail \in DstDetails
    /\ tolInput = DefaultTolInput
    /\ peerInput = NoHotPeers
    /\ splitInput = NoSplitInput

\* a solver filters the destination stores for the main peer it holds
FilterDst ==
    /\ \E bs \in DstSolvers, mainIsLeader \in BOOLEAN :
           dstCall' = [bs |-> bs, mainIsLeader |-> mainIsLeader,
                       admitted |-> filterDstStoresByLoad(bs, mainIsLeader, 2,
                                        DstStLoadDetail(mainIsLeader))]
    /\ UNCHANGED <<regionPendings, now, regionSize, called, ret, gateVars, loadVars,
                   concVars, srcVars, dstDetail, tolVars, peerVars,
                   restVars>>

DstNext == FilterDst

DstSpec == DstInit /\ [][DstNext]_vars

----------------------------------------------------------------------------
(* The load and history checks of the source and of the destination side, on the   *)
(* loads of one store and under the ratios of one configuration, drawn at the start *)

\* the configured ratios: the defaults, one of them or both set to 0, both negative
TolRatios ==
    {<<SrcToleranceRatio, DstToleranceRatio>>, <<0, DstToleranceRatio>>,
     <<SrcToleranceRatio, 0>>, <<0, 0>>, <<-10, -10>>}

\* the loads of a dimension: none, half the expected load, 1.3 times the expected load
TolLoads == {0, 5, ExpectLoad + 3}

\* the expected load of a dimension: none, or ExpectLoad
TolExpects == {0, ExpectLoad}

\* the inputs drawn: a store without history, or with one sample per dimension that
\* equals its load
TolInputs ==
    {TolInput(r[1], r[2], loads, expect, history) :
        r \in TolRatios, loads \in [Dims -> TolLoads], expect \in [Dims -> TolExpects],
        history \in {<<>>}} \cup
    {TolInput(r[1], r[2], loads, expect, [i \in Dims |-> <<loads[i]>>]) :
        r \in TolRatios, loads \in [Dims -> TolLoads], expect \in [Dims -> TolExpects]}

\* the solvers that check: byte then key as priorities, every check policy
TolSolvers ==
    {SrcSolver("write", "movePeer", 0, 1, policy, FALSE) :
        policy \in {"AllOf", "AnyOf", "FirstOnly"}}

TolInit ==
    /\ InitScheduler
    /\ srcDetail = IdleStoreDetail
    /\ dstDetail = RejectedStoreDetail
    /\ tolInput \in TolInputs
    /\ peerInput = NoHotPeers
    /\ splitInput = NoSplitInput

\* the two checks filterSrcStores makes on a store that has a hot peer
CheckSrc ==
    /\ \E bs \in TolSolvers :
           tolCall' = [bs |-> bs, side |-> "src",
                       passed |->
                           /\ checkSrcByPriorityAndTolerance(bs, tolInput.Loads,
                                  tolInput.Expect, tolInput.srcToleranceRatio)
                           /\ checkSrcHistoryLoadsByPriorityAndTolerance(bs,
                                  tolInput.HistoryLoads, tolInput.Expect,
                                  tolInput.srcToleranceRatio)]
    /\ UNCHANGED <<regionPendings, now, regionSize, called, ret, gateVars, loadVars,
                   concVars, srcVars, dstVars, tolInput, peerVars,
                   restVars>>

\* the two checks pickDstStores makes on a candidate that passes the filters
CheckDst ==
    /\ \E bs \in TolSolvers :
           tolCall' = [bs |-> bs, side |-> "dst",
                       passed |->
                           /\ checkDstByPriorityAndTolerance(bs, tolInput.Loads,
                                  tolInput.Expect, tolInput.dstToleranceRatio)
                           /\ checkDstHistoryLoadsByPriorityAndTolerance(bs,
                                  tolInput.HistoryLoads, tolInput.Expect,
                                  tolInput.dstToleranceRatio)]
    /\ UNCHANGED <<regionPendings, now, regionSize, called, ret, gateVars, loadVars,
                   concVars, srcVars, dstVars, tolInput, peerVars,
                   restVars>>

TolNext == CheckSrc \/ CheckDst

TolSpec == TolInit /\ [][TolNext]_vars

----------------------------------------------------------------------------
(* filterHotPeers on a list of hot peers and a max-peer-number drawn at the start *)

\* the loads of a hot peer on a priority
PeerLoads == {1, 2}

\* the hot peers a list can hold at position id; a peer that is pending is not also
\* cooling down here
ListedPeers(id) ==
    {ListedPeer(id, first, second, x[1], x[2]) :
        first \in PeerLoads, second \in PeerLoads,
        x \in {<<FALSE, FALSE>>, <<TRUE, FALSE>>, <<FALSE, TRUE>>}}

\* the lists of hot peers of a store
PeerLists ==
    UNION {{l \in [1..n -> UNION {ListedPeers(id) : id \in 1..n}] :
               \A i \in 1..n : l[i].id = i} : n \in 0..MaxPeerListLen}

\* conf.getMaxPeerNumber(): below the lists, or as long as the longest
MaxPeerNumbers == {1, 2, MaxPeerListLen}

PeerInit ==
    /\ InitScheduler
    /\ srcDetail = IdleStoreDetail
    /\ dstDetail = RejectedStoreDetail
    /\ tolInput = DefaultTolInput
    /\ peerInput \in [HotPeers : PeerLists, maxPeerNum : MaxPeerNumbers]
    /\ splitInput = NoSplitInput

\* balanceSolver.init filters the hot peers of the store
FilterHotPeers ==
    /\ \E result \in filterHotPeersByLoad(peerInput.HotPeers, peerInput.maxPeerNum) :
           peerCall' = [done |-> TRUE, result |-> result]
    /\ UNCHANGED <<regionPendings, now, regionSize, called, ret, gateVars, loadVars,
                   concVars, srcVars, dstVars, tolVars, peerInput,
                   restVars>>

PeerNext == FilterHotPeers

PeerSpec == PeerInit /\ [][PeerNext]_vars

----------------------------------------------------------------------------
(* splitBucketsByLoad over the hot buckets the statistics can report for a region *)

\* the keys of the buckets are 1..MaxKey, besides the empty key
Keys == 1..MaxKey

\* the key ranges of the regions split: the whole key space, a region in the middle
\* and the last region
SplitRegions == {KeyRange(EmptyKey, EmptyKey), KeyRange(1, 4), KeyRange(2, EmptyKey)}

\* the loads of a bucket by kind: read bytes, keys, queries, write bytes, keys,
\* queries; the buckets report no queries
BucketLoad(loads) == [kind \in RegionStatKinds |-> loads[kind + 1]]
BucketLoads ==
    {BucketLoad(<<1, 2, 0, 2, 1, 0>>), BucketLoad(<<10, 1, 0, 1, 10, 0>>),
     BucketLoad(<<2, 10, 0, 10, 2, 0>>), BucketLoad(<<0, 0, 0, 0, 0, 0>>)}

\* the key ranges of n buckets in key order, as (start, end) pairs that do not
\* overlap; the first bucket may start at the empty key and the last one may end at it
RECURSIVE BucketRangesFrom(_, _)
BucketRangesFrom(n, least) ==
    IF n = 0
    THEN {<<>>}
    ELSE UNION {{<<r[1], r[2]>> \o rest : rest \in BucketRangesFrom(n - 1, r[2])} :
                   r \in {x \in (least..MaxKey) \X Keys : x[1] < x[2]}}
         \cup (IF n = 1 THEN {<<start, EmptyKey>> : start \in least..MaxKey} ELSE {})
BucketRanges(n) == BucketRangesFrom(n, EmptyKey)

\* BucketsStats(minHotDegree, id): the stats of the hot buckets of the region, which
\* need not cover the region nor lie inside it
BucketStatLists(n) ==
    {[i \in 1..n |-> BucketStat(k[2 * i - 1], k[2 * i], l[i])] :
        k \in BucketRanges(n), l \in [1..n -> BucketLoads]}

\* the priorities of the solvers that split
SplitSolvers ==
    {SplitSolver(rw, p[1], p[2]) :
        rw \in RWTypes, p \in {<<0, 1>>, <<1, 0>>, <<QueryDim, 0>>, <<QueryDim, 1>>}}

SplitInit ==
    /\ InitScheduler
    /\ srcDetail = IdleStoreDetail
    /\ dstDetail = RejectedStoreDetail
    /\ tolInput = DefaultTolInput
    /\ peerInput = NoHotPeers
    /\ \E n \in 0..MaxBuckets, bs \in SplitSolvers, region \in SplitRegions :
           \E stats \in BucketStatLists(n) :
              splitInput = SplitInput(bs, region, stats)

\* createSplitOperator with the strategy byLoad, for a region with hot buckets
SplitByLoad ==
    /\ splitCall' =
           [done |-> TRUE,
            op |-> splitBucketsByLoad(splitInput.region, splitInput.stats,
                       bucketFirstStat(splitInput.bs.rwTy, splitInput.bs.firstPriority,
                                       splitInput.bs.secondPriority))]
    /\ UNCHANGED <<regionPendings, now, regionSize, called, ret, gateVars, loadVars,
                   concVars, srcVars, dstVars, tolVars, peerVars, splitInput,
                   gcVars, moreVars>>

SplitNext == SplitByLoad

SplitSpec == SplitInit /\ [][SplitNext]_vars

----------------------------------------------------------------------------
(* The GC RPCs of one key space, each under keySpaceGCLock, and the leases of etcd *)

\* the safe points requested: the least one and two that take two digits in base 16
SafePoints == {0, MaxSafePoint - 1, MaxSafePoint}

\* the revisions a client sends with UpdateGCSafePoint: the one the last
\* GetMinServiceSafePoint returned, and the ones of a client that has not asked
Revisions(seen) ==
    {RevisionUnavailable, 0} \cup (IF seen.asked THEN {seen.revision} ELSE {})

\* the TTLs a service sends: a removal (negative or zero) and a lease
TTLs == {-1, 0, 1}

\* the service safe point of a service that has none is saved
IsRegistration(etcd, serviceID, ttl, out) ==
    /\ ttl > 0
    /\ out.ok /\ out.response.Succeeded
    /\ LoadServiceSafePoint(etcd, serviceID) = NilServiceSafePoint

GcInit ==
    /\ InitScheduler
    /\ srcDetail = IdleStoreDetail
    /\ dstDetail = RejectedStoreDetail
    /\ tolInput = DefaultTolInput
    /\ peerInput = NoHotPeers
    /\ splitInput = NoSplitInput

\* a client asks for the least service safe point and the revision of the key space
GcGetMinServiceSafePoint ==
    /\ \E fail \in {"none", "read"} :
           \E out \in {GetMinServiceSafePoint(gcEtcd, fail)} :
               /\ gcEtcd' = out.etcd
               /\ gcCall' = GcCall("GetMinServiceSafePoint", "", 0, 0, 0, out.ok, out.response)
               /\ gcSeen' = IF out.ok THEN Seen(TRUE, out.response.Revision, FALSE) ELSE gcSeen
    /\ UNCHANGED <<regionPendings, now, regionSize, called, ret, gateVars, loadVars,
                   concVars, srcVars, dstVars, tolVars, peerVars, splitVars,
                   moreVars>>

\* a GC worker sends a safe point with a revision
GcUpdateGCSafePoint ==
    /\ \E safePoint \in SafePoints, revision \in Revisions(gcSeen), fail \in {"none", "write"} :
           \E out \in {UpdateGCSafePoint(gcEtcd, safePoint, revision, fail)} :
               /\ out.etcd.revision <= MaxRevision
               /\ gcEtcd' = out.etcd
               /\ gcCall' = GcCall("UpdateGCSafePoint", "", 0, safePoint, revision,
                                   out.ok, out.response)
    /\ UNCHANGED <<regionPendings, now, regionSize, called, ret, gateVars, loadVars,
                   concVars, srcVars, dstVars, tolVars, peerVars, splitVars, gcSeen,
                   moreVars>>

\* a service sends its safe point with a TTL
GcUpdateServiceSafePoint ==
    /\ \E serviceID \in Services, ttl \in TTLs, safePoint \in SafePoints,
          fail \in {"none", "write", "write2"} :
           \E out \in {UpdateServiceSafePoint(gcEtcd, serviceID, ttl, safePoint, fail)} :
               /\ out.etcd.revision <= MaxRevision
               /\ gcEtcd' = out.etcd
               /\ gcCall' = GcCall("UpdateServiceSafePoint", serviceID, ttl, safePoint, 0,
                                   out.ok, out.response)
               /\ gcSeen' = IF IsRegistration(gcEtcd, serviceID, ttl, out)
                            THEN [gcSeen EXCEPT !.registered = TRUE]
                            ELSE gcSeen
    /\ UNCHANGED <<regionPendings, now, regionSize, called, ret, gateVars, loadVars,
                   concVars, srcVars, dstVars, tolVars, peerVars, splitVars,
                   moreVars>>

\* the lease of a service safe point runs out and etcd deletes the key
GcLeaseExpires ==
    /\ \E serviceID \in Services :
           /\ KeySpaceServiceSafePointPath(serviceID) \in DOMAIN gcEtcd.kvs
           /\ gcEtcd.revision < MaxRevision
           /\ gcEtcd' = Remove(gcEtcd, KeySpaceServiceSafePointPath(serviceID))
    /\ gcCall' = NoGcCall
    /\ UNCHANGED <<regionPendings, now, regionSize, called, ret, gateVars, loadVars,
                   concVars, srcVars, dstVars, tolVars, peerVars, splitVars, gcSeen,
                   moreVars>>

GcNext ==
    \/ GcGetMinServiceSafePoint
    \/ GcUpdateGCSafePoint
    \/ GcUpdateServiceSafePoint
    \/ GcLeaseExpires

GcSpec == GcInit /\ [][GcNext]_vars

----------------------------------------------------------------------------
(* The GC RPCs of one key space with GC workers that follow the protocol: a worker *)
(* sends to UpdateGCSafePoint the revision of an answer of GetMinServiceSafePoint   *)
(* it holds, with a safe point that is not above the safe point of that answer     *)

\* an answer of GetMinServiceSafePoint
MinAnswer(safePoint, revision) == [SafePoint |-> safePoint, Revision |-> revision]

\* a GC worker asks for the least service safe point and keeps the answer
WorkerGetMinServiceSafePoint ==
    /\ \E fail \in {"none", "read"} :
           \E out \in {GetMinServiceSafePoint(gcEtcd, fail)} :
               /\ gcEtcd' = out.etcd
               /\ gcCall' = GcCall("GetMinServiceSafePoint", "", 0, 0, 0, out.ok, out.response)
               /\ gcMins' = IF out.ok
                            THEN gcMins \cup {MinAnswer(out.response.SafePoint,
                                                        out.response.Revision)}
                            ELSE gcMins
    /\ UNCHANGED <<regionPendings, now, regionSize, called, ret, gateVars, loadVars,
                   concVars, srcVars, dstVars, tolVars, peerVars, splitVars, gcSeen,
                   txnVars, quotaVars, evictVars, sortVars>>

\* a GC worker sends the revision of an answer it holds, however old, with a safe
\* point that is not above the safe point of the answer
WorkerUpdateGCSafePoint ==
    /\ \E answer \in gcMins, fail \in {"none", "write"} :
           \E safePoint \in {sp \in SafePoints : sp <= answer.SafePoint} :
               \E out \in {UpdateGCSafePoint(gcEtcd, safePoint, answer.Revision, fail)} :
                   /\ out.etcd.revision <= MaxRevision
                   /\ gcEtcd' = out.etcd
                   /\ gcCall' = GcCall("UpdateGCSafePoint", "", 0, safePoint,
                                       answer.Revision, out.ok, out.response)
    /\ UNCHANGED <<regionPendings, now, regionSize, called, ret, gateVars, loadVars,
                   concVars, srcVars, dstVars, tolVars, peerVars, splitVars, gcSeen,
                   moreVars>>

WorkerNext ==
    \/ WorkerGetMinServiceSafePoint
    \/ WorkerUpdateGCSafePoint
    \/ GcUpdateServiceSafePoint
    \/ GcLeaseExpires

WorkerSpec == GcInit /\ [][WorkerNext]_vars

----------------------------------------------------------------------------
(* RunInTxn: the function of the user calls Save, Remove, Load and LoadRange on the  *)
(* transaction and returns; other clients of the same etcd write in between          *)

\* the state of the scheduler and of the GC service, which the KV store leaves alone
hotGcVars == <<regionPendings, now, regionSize, called, ret, gateVars, loadVars,
               concVars, srcVars, dstVars, tolVars, peerVars, splitVars, gcVars,
               sortVars, workerVars>>

\* the ranges asked of LoadRange, with the limit: none, or one key
TxnRanges == {<<1, MaxTxnKey + 1, 0>>, <<1, MaxTxnKey + 1, 1>>, <<1, MaxTxnKey, 0>>}

TxnInit == GcInit

\* the return of the function of the user: RunInTxn returns its error, or commits
RunInTxnCommitsAnyway(t, kv, userErr, fail) ==
    IF userErr THEN [kv |-> commit(t, kv, fail).kv, err |-> "user"] ELSE commit(t, kv, fail)

RunInTxn(t, kv, userErr, fail) ==
    IF userErr THEN [kv |-> kv, err |-> "user"] ELSE commit(t, kv, fail)

\* RunInTxn creates the transaction and calls the function of the user
TxnBegin ==
    /\ ~txn.running
    /\ txn' = NewTxn
    /\ txnRet' = NoTxnRet
    /\ UNCHANGED <<hotGcVars, txnKv, quotaVars, evictVars>>

\* the function calls txn.Save
TxnUserSave ==
    /\ txn.running /\ txn.calls < MaxTxnCalls
    /\ \E key \in TxnKeys, value \in TxnValues :
           /\ txn' = TxnSave(txn, key, value)
           /\ txnRet' = TxnRet("Save", key, value, "nil", txn'.operations)
    /\ UNCHANGED <<hotGcVars, txnKv, quotaVars, evictVars>>

\* the function calls txn.Remove
TxnUserRemove ==
    /\ txn.running /\ txn.calls < MaxTxnCalls
    /\ \E key \in TxnKeys :
           /\ txn' = TxnRemove(txn, key)
           /\ txnRet' = TxnRet("Remove", key, "", "nil", txn'.operations)
    /\ UNCHANGED <<hotGcVars, txnKv, quotaVars, evictVars>>

\* the function calls txn.Load
TxnUserLoad ==
    /\ txn.running /\ txn.calls < MaxTxnCalls
    /\ \E key \in TxnKeys, fail \in BOOLEAN :
           /\ txn' = TxnLoad(txn, txnKv, key, fail)
           /\ txnRet' = TxnRet("Load", key, KvLoad(txnKv, key, fail).value,
                               IF fail THEN "etcd" ELSE "nil", txn.operations)
    /\ UNCHANGED <<hotGcVars, txnKv, quotaVars, evictVars>>

\* the function calls txn.LoadRange
TxnUserLoadRange ==
    /\ txn.running /\ txn.calls < MaxTxnCalls
    /\ \E range \in TxnRanges :
           /\ txn' = TxnLoadRange(txn, txnKv, range[1], range[2], range[3], FALSE)
           /\ txnRet' = TxnRet("LoadRange", range[1], "", "nil", txn.operations)
    /\ UNCHANGED <<hotGcVars, txnKv, quotaVars, evictVars>>

\* the function returns, with an error or without, and RunInTxn returns
TxnUserReturns ==
    /\ txn.running
    /\ \E userErr \in BOOLEAN, fail \in BOOLEAN :
           \E out \in {RunInTxn(txn, txnKv, userErr, fail)} :
               /\ txnKv' = out.kv
               /\ txnRet' = TxnRet("RunInTxn", 0, "", out.err, txn.operations)
    /\ txn' = NoTxn
    /\ UNCHANGED <<hotGcVars, quotaVars, evictVars>>

\* another client saves a key with etcdKVBase.Save
TxnOtherSave ==
    /\ \E key \in TxnKeys, value \in TxnValues :
           /\ txnKv[FullKey(key)] # value
           /\ txnKv' = KvSave(txnKv, key, value)
    /\ txn' = IF txn.running /\ txn.conditions # <<>>
              THEN [txn EXCEPT !.disturbed = TRUE] ELSE txn
    /\ UNCHANGED <<hotGcVars, txnRet, quotaVars, evictVars>>

\* another client removes a key with etcdKVBase.Remove
TxnOtherRemove ==
    /\ \E key \in TxnKeys :
           /\ txnKv[FullKey(key)] # Absent
           /\ txnKv' = KvRemove(txnKv, key)
    /\ txn' = IF txn.running /\ txn.conditions # <<>>
              THEN [txn EXCEPT !.disturbed = TRUE] ELSE txn
    /\ UNCHANGED <<hotGcVars, txnRet, quotaVars, evictVars>>

TxnNext ==
    \/ TxnBegin
    \/ TxnUserSave
    \/ TxnUserRemove
    \/ TxnUserLoad
    \/ TxnUserLoadRange
    \/ TxnUserReturns
    \/ TxnOtherSave
    \/ TxnOtherRemove

TxnSpec == TxnInit /\ [][TxnNext]_vars

----------------------------------------------------------------------------
(* The retry quota under any sequence of its calls *)

\* everything but the retry quota
notQuotaVars == <<hotGcVars, txnVars, evictVars>>

QuotaInit == GcInit

\* q.getLimit(store)
QuotaGetLimit ==
    /\ \E store \in QuotaStores :
           \E got \in {getLimit(quotaLimits, store)} :
               /\ quotaLimits' = got.limits
               /\ quotaCall' = QuotaCall("getLimit", {store}, got.limit)
    /\ UNCHANGED notQuotaVars

\* q.attenuate(store)
QuotaAttenuate ==
    /\ \E store \in QuotaStores :
           /\ quotaLimits' = attenuate(quotaLimits, store)
           /\ quotaCall' = QuotaCall("attenuate", {store}, 0)
    /\ UNCHANGED notQuotaVars

\* q.resetLimit(store)
QuotaResetLimit ==
    /\ \E store \in QuotaStores :
           /\ quotaLimits' = resetLimit(quotaLimits, store)
           /\ quotaCall' = QuotaCall("resetLimit", {store}, 0)
    /\ UNCHANGED notQuotaVars

\* q.gc(keepStores)
QuotaGc ==
    /\ \E keepStores \in SUBSET QuotaStores :
           /\ quotaLimits' = gc(quotaLimits, keepStores)
           /\ quotaCall' = QuotaCall("gc", keepStores, 0)
    /\ UNCHANGED notQuotaVars

QuotaNext ==
    \/ QuotaGetLimit
    \/ QuotaAttenuate
    \/ QuotaResetLimit
    \/ QuotaGc

QuotaSpec == QuotaInit /\ [][QuotaNext]_vars

----------------------------------------------------------------------------
(* The two schedulers of the evict-slow-store test over a cluster whose stores turn   *)
(* slow and recover, one at a time, with a storage that can fail                      *)

\* everything but the evict-slow-store scheduler and its cluster
notEvictVars == <<hotGcVars, txnVars, quotaVars>>

\* the stores that lead a region
LeaderStores == {EvictRegionPeers[r][1] : r \in DOMAIN EvictRegionPeers}

EvictInit == GcInit

\* suite.es.Schedule(suite.tc, false)
EvictSchedule ==
    /\ \E ready \in BOOLEAN :
           \E out \in {evictSlowStoreSchedule(slowScore, evictConf, evictStorage,
                                              evictPaused, ready, persistFail)} :
               /\ evictConf' = out.EvictedStores
               /\ evictStorage' = out.storage
               /\ evictPaused' = out.paused
               /\ evictCall' = EvictCall("evict-slow-store", ready, out.ops)
    /\ UNCHANGED <<notEvictVars, slowScore, persistFail>>

\* suite.bs.Schedule(suite.tc, false): one of the transfers, when there is one
BalanceLeaderSchedule ==
    /\ \/ /\ balanceLeaderSchedule(evictPaused) = {}
          /\ evictCall' = EvictCall("balance-leader", FALSE, {})
       \/ \E op \in balanceLeaderSchedule(evictPaused) :
              evictCall' = EvictCall("balance-leader", FALSE, {op})
    /\ UNCHANGED <<notEvictVars, slowScore, evictConf, evictStorage, evictPaused,
                   persistFail>>

\* suite.es.PrepareConfig(suite.tc)
EvictPrepareConfig ==
    /\ evictPaused' = PrepareConfig(evictConf, evictPaused)
    /\ evictCall' = NoEvictCall
    /\ UNCHANGED <<notEvictVars, slowScore, evictConf, evictStorage, persistFail>>

\* suite.tc.PutStore with SlowScore = 100, for a store that leads a region while no
\* other store is slow
StoreTurnsSlow ==
    /\ \E store \in LeaderStores :
           /\ SlowStores(slowScore) = {}
           /\ slowScore' = [slowScore EXCEPT ![store] = slowStoreEvictThreshold]
    /\ evictCall' = NoEvictCall
    /\ UNCHANGED <<notEvictVars, evictConf, evictStorage, evictPaused, persistFail>>

\* suite.tc.PutStore with SlowScore = 0
StoreRecovers ==
    /\ \E store \in SlowStores(slowScore) :
           slowScore' = [slowScore EXCEPT ![store] = 0]
    /\ evictCall' = NoEvictCall
    /\ UNCHANGED <<notEvictVars, evictConf, evictStorage, evictPaused, persistFail>>

\* failpoint.Enable(persistFail) and failpoint.Disable(persistFail)
SetPersistFail ==
    /\ persistFail' = ~persistFail
    /\ evictCall' = NoEvictCall
    /\ UNCHANGED <<notEvictVars, slowScore, evictConf, evictStorage, evictPaused>>

EvictNext ==
    \/ EvictSchedule
    \/ BalanceLeaderSchedule
    \/ EvictPrepareConfig
    \/ StoreTurnsSlow
    \/ StoreRecovers
    \/ SetPersistFail

EvictSpec == EvictInit /\ [][EvictNext]_vars

----------------------------------------------------------------------------
(* The loop of sortHotPeers, one iteration of its outer loop at a time, on the    *)
(* lists filterHotPeers gives it                                                   *)

\* the hot peers of the lists given to the loop: none is pending or cooling down
SortedPeers(id) ==
    {ListedPeer(id, first, second, FALSE, FALSE) : first \in PeerLoads, second \in PeerLoads}

\* the lists of hot peers of a store
SortPeerLists ==
    UNION {{l \in [1..n -> UNION {SortedPeers(id) : id \in 1..n}] :
               \A i \in 1..n : l[i].id = i} : n \in 0..MaxPeerListLen}

\* conf.getMaxPeerNumber(): negative, zero, and below the longest list
SortMaxPeerNumbers == (-1)..(MaxPeerListLen - 1)

notSortVars == <<regionPendings, now, regionSize, called, ret, gateVars, loadVars,
                 concVars, srcVars, dstVars, tolVars, peerVars, splitVars, gcVars,
                 txnVars, quotaVars, evictVars, workerVars>>

SortInit ==
    /\ InitScheduler
    /\ srcDetail = IdleStoreDetail
    /\ dstDetail = RejectedStoreDetail
    /\ tolInput = DefaultTolInput
    /\ peerInput \in [HotPeers : SortPeerLists, maxPeerNum : SortMaxPeerNumbers]
    /\ splitInput = NoSplitInput

\* filterHotPeers sorts two copies of the list and, the list being longer than
\* bs.maxPeerNum, calls sortHotPeers with them: the union is made empty
SortHotPeersCall ==
    /\ sortLoop.pc = "idle"
    /\ Len(peerInput.HotPeers) > peerInput.maxPeerNum
    /\ \E firstSort \in sortedByLoad(peerInput.HotPeers, "first"),
          secondSort \in sortedByLoad(peerInput.HotPeers, "second") :
           sortLoop' = SortLoop("loop", firstSort, secondSort, firstSort, secondSort, {})
    /\ UNCHANGED notSortVars

\* the union is shorter than bs.maxPeerNum: the body of the outer loop runs once
SortHotPeersIterate ==
    /\ sortLoop.pc = "loop"
    /\ Cardinality(sortLoop.union) < peerInput.maxPeerNum
    /\ LET next == sortHotPeersIteration(sortLoop.firstSort, sortLoop.secondSort,
                                         sortLoop.union, peerInput.maxPeerNum)
       IN  sortLoop' = SortLoop("loop", sortLoop.first, sortLoop.second,
                                next.firstSort, next.secondSort, next.union)
    /\ UNCHANGED notSortVars

\* the union is not shorter than bs.maxPeerNum: the outer loop ends and the union is
\* returned
SortHotPeersReturn ==
    /\ sortLoop.pc = "loop"
    /\ Cardinality(sortLoop.union) >= peerInput.maxPeerNum
    /\ sortLoop' = [sortLoop EXCEPT !.pc = "done"]
    /\ UNCHANGED notSortVars

SortNext == SortHotPeersCall \/ SortHotPeersIterate \/ SortHotPeersReturn

\* the goroutine that runs the loop is scheduled again and again
SortSpec == SortInit /\ [][SortNext]_vars /\ WF_vars(SortNext)

----------------------------------------------------------------------------
(* Liveness *)

\* time passes, and the scheduler controller calls Schedule again and again, every
\* GetNextInterval: infinitely many steps are calls of Schedule (under Next a step
\* that changes the state and ends with called is one).  A call changes the state
\* whenever an entry is due for collection, so for the collection of due entries
\* this asks what WF_vars(Schedule) asks
LiveSpec == Spec /\ WF_vars(Tick) /\ []<><<called'>>_vars

----------------------------------------------------------------------------
(* Properties *)

\* the regions of a list of operators
OpRegions(ops) == {ops[i].region : i \in 1..Len(ops)}

\* the operator of an entry has ended and its zombie duration has elapsed at time t
ZombieElapsed(p, t) == IsEndStatus(p.op.status) /\ t - p.op.reach >= p.maxZombieDuration

\* C1: regionPendings holds at most one entry per region id, kept under the region
\* of its operator; hotScheduler.tryAddPendingInfluence, tried on the ledger of any
\* reachable state, returns false and leaves the ledger as it is when the region of
\* the operator has an entry, and otherwise returns true and adds exactly the one
\* new entry under that region id, leaving every other entry as it is
C1_OneEntryPerRegion ==
    /\ \A r \in DOMAIN regionPendings : r \in Regions /\ regionPendings[r].op.region = r
    /\ \A r \in Regions, d \in Stores,
          z \in {StoreStatZombieDuration, RegionsStatZombieDuration} :
          (d # RegionLeaderStore(r) /\ createOperator(r, RegionLeaderStore(r), d) # NoOp) =>
          LET src == RegionLeaderStore(r)
              op == NewOperator(createOperator(r, src, d))
              infl == collectPendingInfluence(HotPeerStat("write", r, src, FALSE))
              res == tryAddPendingInfluence(regionPendings, op, <<src>>, d, infl, z)
          IN  IF r \in DOMAIN regionPendings
              THEN ~res.ok /\ res.regionPendings = regionPendings
              ELSE /\ res.ok
                   /\ DOMAIN res.regionPendings = DOMAIN regionPendings \cup {r}
                   /\ res.regionPendings[r] = newPendingInfluence(op, <<src>>, d, infl, z)
                   /\ \A q \in DOMAIN regionPendings :
                          res.regionPendings[q] = regionPendings[q]

\* a dispatch has inserted an entry for one region and the other region has none
C1_Witness ==
    /\ called
    /\ ret.ops # <<>>
    /\ Cardinality(DOMAIN regionPendings) = 1
    /\ OpRegions(ret.ops) = DOMAIN regionPendings

\* what filterHotPeers returns in a state: no peer of a pending region, none that
\* needs to cool down
C2_FilterExcludesPending ==
    \A rw \in RWTypes, s \in Stores :
        \A item \in filterHotPeers(regionPendings, rw, s) :
            item.RegionID \notin DOMAIN regionPendings /\ ~item.needCoolDown

\* no operator a dispatch returns concerns a region that has an entry when the
\* search of that dispatch starts, that is after its decay pass
C2_NoPendingRegionReturned ==
    called' =>
        OpRegions(ret'.ops) \cap DOMAIN prepareForBalance(regionPendings, now) = {}

\* C2: filterHotPeers never returns a hot peer whose region has an entry in
\* regionPendings or that needs cool-down, and so no operator returned by dispatch
\* (main, revert or split) concerns a region that had a ledger entry when the search
\* of that dispatch started
C2_PendingRegionsNotScheduled ==
    []C2_FilterExcludesPending /\ [][C2_NoPendingRegionReturned]_vars

\* a dispatch returned operators while another region stayed pending
C2_Witness ==
    /\ called
    /\ ret.ops # <<>>
    /\ \E r \in DOMAIN regionPendings :
          r \notin OpRegions(ret.ops) /\ ~ZombieElapsed(regionPendings[r], now)

\* C3: calcPendingInfluence, for every operator status and elapsed time: not in an
\* end status -> (1, false); SUCCESS with elapsed < maxZombieDur -> (1, false);
\* SUCCESS with elapsed >= maxZombieDur -> (0, true); any other end status -> weight
\* 0, needGC exactly when elapsed >= maxZombieDur; the weight is 0 or 1 and needGC
\* implies weight 0.  The decay pass of a reachable state keeps an entry exactly
\* when needGC is false
C3_WeightTable ==
    /\ \A status \in Statuses, reach \in 0..MaxTime, t \in 0..MaxTime,
          z \in {StoreStatZombieDuration, RegionsStatZombieDuration} :
          t >= reach =>
            LET op == [NewOperator(SplitOp(1)) EXCEPT !.status = status, !.reach = reach]
                c == calcPendingInfluence(op, z, t)
                elapsed == t - reach
            IN  /\ c.weight \in {0, 1}
                /\ c.needGC => c.weight = 0
                /\ ~IsEndStatus(status) => c = [weight |-> 1, needGC |-> FALSE]
                /\ (status = "SUCCESS" /\ elapsed < z) => c = [weight |-> 1, needGC |-> FALSE]
                /\ (status = "SUCCESS" /\ elapsed >= z) => c = [weight |-> 0, needGC |-> TRUE]
                /\ status \in EndStatuses \ {"SUCCESS"} =>
                       c = [weight |-> 0, needGC |-> (elapsed >= z)]
    /\ \A r \in DOMAIN regionPendings :
          (r \in DOMAIN prepareForBalance(regionPendings, now))
              = ~calcPendingInfluence(regionPendings[r].op,
                                      regionPendings[r].maxZombieDuration, now).needGC

\* a decay pass has kept, with weight 0, the entry of an operator that was canceled
\* less than its zombie duration ago
C3_Witness ==
    /\ called
    /\ \E r \in DOMAIN regionPendings :
          /\ regionPendings[r].op.status = "CANCELED"
          /\ now - regionPendings[r].op.reach < regionPendings[r].maxZombieDuration

\* one step and the entry region r has before it: the entry goes (it leaves the
\* ledger, or a dispatch puts a new one in its place) only in a dispatch, and only
\* when its operator has ended and the zombie duration has elapsed; an entry that
\* is not due keeps its region out of what a dispatch returns
C4_Step ==
    \A r \in DOMAIN regionPendings :
        LET p == regionPendings[r]
            gone == \/ r \notin DOMAIN regionPendings'
                    \/ called' /\ regionPendings'[r] # p
        IN  /\ gone => called' /\ ZombieElapsed(p, now)
            /\ (called' /\ ~ZombieElapsed(p, now)) => r \notin OpRegions(ret'.ops)

\* C4: a ledger entry is removed only by a decay pass in which its operator is in
\* an end status and at least maxZombieDuration has elapsed since it reached that
\* status; an entry whose operator is still running, or ended less than
\* maxZombieDuration ago, stays in regionPendings and keeps its region excluded
\* from scheduling
C4_RemovedOnlyWhenZombieElapsed == [][C4_Step]_vars

\* a dispatch at a later time has kept the entry of an operator that succeeded less
\* than its zombie duration ago
C4_Witness ==
    /\ called
    /\ \E r \in DOMAIN regionPendings :
          /\ regionPendings[r].op.status = "SUCCESS"
          /\ regionPendings[r].op.reach < now
          /\ now - regionPendings[r].op.reach < regionPendings[r].maxZombieDuration

\* region r has an entry whose operator has ended and whose zombie duration has elapsed
HasExpired(r) == r \in DOMAIN regionPendings /\ ZombieElapsed(regionPendings[r], now)

\* the ledger has entries and every one of them is expired
AllExpired == regionPendings # <<>> /\ \A r \in DOMAIN regionPendings : HasExpired(r)

\* the last step was a call of Schedule that returned operators, so inserted an entry
Inserted == called /\ ret.ops # <<>>

\* C5: when the scheduler keeps being dispatched, every entry whose operator has ended
\* and whose zombie duration has elapsed, whatever its froms and its status, is
\* collected by a later decay pass; and from a state where every entry of the ledger
\* is such an entry the ledger becomes empty, unless a dispatch inserts a new entry
C5_LedgerEventuallyEmpty ==
    /\ (\E r \in Regions : HasExpired(r)) ~> (\A r \in Regions : ~HasExpired(r))
    /\ AllExpired ~> (regionPendings = <<>> \/ Inserted)

\* a dispatch has collected the expired entries of both regions, one of them with
\* several froms, and left the ledger empty
C5_Witness ==
    /\ called
    /\ ret.collected = Regions
    /\ regionPendings = <<>>

\* C6: in the decay pass of a reachable state every retained entry, of weight w, puts
\* -w times its origin on every store of its froms and +w times its origin, once,
\* on its to store, with w 0 or 1; an entry that is collected puts nothing; so no
\* store receives from one entry more than the origin of the entry in absolute
\* value, however many froms the entry has
C6_SymmetricContribution ==
    LET pass == summaryPendingInfluence(regionPendings, now)
    IN  \A r \in Regions, st \in Stores :
            IF r \in DOMAIN pass.regionPendings
            THEN LET p == regionPendings[r]
                     w == calcPendingInfluence(p.op, p.maxZombieDuration, now).weight
                     n == Cardinality({i \in 1..Len(p.froms) : p.froms[i] = st})
                     c == pass.storeInfos[st][r]
                 IN  /\ w \in {0, 1}
                     /\ c = (IF st = p.to THEN w ELSE 0) - w * n
                     /\ c >= -1 /\ c <= 1
            ELSE pass.storeInfos[st][r] = 0

\* the decay pass of a dispatch has retained, with weight 1, an entry with more than
\* one from
C6_Witness ==
    /\ called
    /\ \E r \in DOMAIN regionPendings :
          /\ r \notin OpRegions(ret.ops)
          /\ Len(regionPendings[r].froms) > 1
          /\ calcPendingInfluence(regionPendings[r].op,
                                  regionPendings[r].maxZombieDuration, now).weight = 1

\* C7: every ledger entry describes its operator: it is kept under the region of the
\* operator, its origin influence is that of a hot peer of that region, and for an
\* operator that moves a peer or a leader its froms is the store the operator takes
\* it from and its to is the store the operator moves it to (for a revert operator
\* main.dst and main.src)
C7_EntryDescribesOperator ==
    \A r \in DOMAIN regionPendings :
        LET p == regionPendings[r]
        IN  /\ p.op.region = r
            /\ p.origin.RegionID = p.op.region
            /\ p.op.kind # "split-region" => p.froms = <<p.op.from>> /\ p.to = p.op.to

\* C8: when a dispatch returns operators, the region of every one of them has an
\* entry in regionPendings
C8_ReturnedOperatorsArePending ==
    (called /\ ret.ops # <<>>) => OpRegions(ret.ops) \subseteq DOMAIN regionPendings

\* for every solver a dispatch of the current state can hold after solve(): when its
\* tryAddPendingInfluence fails, the ledger is as the decay pass left it and the
\* write dispatch returns nothing
C9_FailedBatchLeavesLedger ==
    LET decayed == prepareForBalance(regionPendings, now)
    IN  \A conf \in Configs, rw \in RWTypes, opTy \in OpTypes :
            \A b \in solve(decayed, rw, opTy, stLoadDetail, conf, regionSize) :
                LET bs == Solver(rw, opTy, b.best, b.ops, conf)
                    added == bsTryAddPendingInfluence(decayed, bs)
                IN  ~added.ok =>
                        /\ added.regionPendings = decayed
                        /\ rw = "write" => balanceHotWrite(decayed, bs) = Outcome(<<>>, decayed)

\* a dispatch changes the ledger its decay pass left only by entries for operators
\* it returns, and changes nothing when it returns none
C9_Step ==
    called' =>
        LET decayed == prepareForBalance(regionPendings, now)
        IN  /\ DOMAIN decayed \subseteq DOMAIN regionPendings'
            /\ \A r \in DOMAIN regionPendings' :
                   (r \notin DOMAIN decayed \/ regionPendings'[r] # decayed[r])
                       => r \in OpRegions(ret'.ops)
            /\ ret'.ops = <<>> => regionPendings' = decayed

C10_Step ==
    (called /\ called') =>
        /\ ret'.collected = {}
        /\ \A r \in DOMAIN regionPendings :
               r \in DOMAIN regionPendings' /\ regionPendings'[r] = regionPendings[r]
        /\ OpRegions(ret'.ops) \cap DOMAIN regionPendings = {}

SolveOutcomes ==
    LET decayed == prepareForBalance(regionPendings, now)
    IN  UNION {{[rwTy |-> rw, opTy |-> opTy, conf |-> conf, best |-> b.best, ops |-> b.ops] :
                   b \in solve(decayed, rw, opTy, stLoadDetail, conf, regionSize)} :
               <<rw, opTy, conf>> \in RWTypes \X OpTypes \X Configs}

\* ops[2] undoes ops[1] on the revert region of the solution: an operator that moves
\* a peer or a leader of that region from the destination store of the solution to
\* its source store
IsRevertPair(b) ==
    /\ Len(b.ops) = 2
    /\ b.ops[2].kind \in {"move-peer", "move-leader", "transfer-leader"}
    /\ b.ops[2].region = b.best.revertRegion
    /\ b.ops[2].region # b.ops[1].region
    /\ b.ops[1].from = b.ops[2].to /\ b.ops[1].to = b.ops[2].from
    /\ b.ops[1].from = b.best.srcStore /\ b.ops[1].to = b.best.dstStore

MovesPeer(op) == op.kind \in {"move-peer", "move-leader"}

\* the region of op has a peer on the source store and none on the destination store,
\* and the peer op adds has the role of the peer it removes
KeepsReplicas(op) ==
    /\ HasStorePeer(op.region, op.from)
    /\ ~HasStorePeer(op.region, op.to)
    /\ op.role \in {"Voter", "Learner"}
    /\ op.role = RegionPeerRole(op.region, op.from)

\* C12: for every operator that moves a peer, main or revert, that a search can end
\* with and that a dispatch returns: the region has a peer on the source store of the
\* operator and none on its destination store, and the peer added on the destination
\* takes the role of the peer removed from the source, so the number of replicas of
\* the region and their roles are unchanged
C12_MovePeerKeepsReplicas ==
    /\ \A b \in SolveOutcomes : \A i \in 1..Len(b.ops) :
           MovesPeer(b.ops[i]) => KeepsReplicas(b.ops[i])
    /\ called => \A i \in 1..Len(ret.ops) : MovesPeer(ret.ops[i]) => KeepsReplicas(ret.ops[i])

\* a dispatch has returned a main operator that moves a learner and a revert operator
\* that moves the leader of another region the other way
C12_Witness ==
    /\ called
    /\ Len(ret.ops) = 2
    /\ ret.ops[1].kind = "move-peer" /\ ret.ops[1].role = "Learner"
    /\ ret.ops[2].kind = "move-leader" /\ ret.ops[2].role = "Voter"

\* the store op takes the leader from holds the leader of the region, and the store
\* it hands the leader to holds a voter
LeaderToVoter(op) ==
    /\ RegionLeaderStore(op.region) = op.from
    /\ RegionPeerRole(op.region, op.to) = "Voter"

\* the destination stores the read-leader search of a region considers for a transfer
\* of its leader: filterDstStores takes every store that holds a peer, whatever its role
ReadTransferCandidates(r) ==
    {d \in filterDstStores("read", "transferLeader", RegionLeaderStore(r), r,
                           HotPeerStat("read", r, RegionLeaderStore(r), FALSE),
                           stLoadDetail, Config(TRUE, "none", TRUE, TRUE, TRUE)) :
        HasStorePeer(r, d)}

NeverMixed(ops) ==
    \/ \A i \in 1..Len(ops) : ops[i].kind = "split-region"
    \/ \A i \in 1..Len(ops) : ops[i].kind # "split-region"

\* C14: when a selected region is larger than the movable limit, only split operators
\* are emitted for it: no search ends with, and no dispatch returns, an operator that
\* moves a peer or a leader of a region whose size exceeds the limit, and splits are
\* never mixed with other operators
C14_OversizedOnlySplit ==
    /\ \A b \in SolveOutcomes :
           /\ NeverMixed(b.ops)
           /\ \A i \in 1..Len(b.ops) :
                  IsOversized(regionSize, b.ops[i].region) => b.ops[i].kind = "split-region"
    /\ called =>
           /\ NeverMixed(ret.ops)
           /\ \A i \in 1..Len(ret.ops) :
                  IsOversized(regionSize, ret.ops[i].region) => ret.ops[i].kind = "split-region"

\* one step of the scheduler under its controller, from a state where the operator
\* count is not below the limit: Schedule is not called, nothing is returned and no
\* entry is inserted; and a step that returns operators starts below the limit
C15_Step ==
    LET count == OperatorCount(regionPendings)
    IN  /\ count >= scheduleLimit =>
               /\ ~called'
               /\ ret'.ops = <<>>
               /\ DOMAIN regionPendings' = DOMAIN regionPendings
        /\ (called' /\ ret'.ops # <<>>) => count < scheduleLimit

updateTimeOf(rw, readTime, writeTime) == IF rw = "read" THEN readTime ELSE writeTime

\* the pending sums prepareForBalance computes in a call from the current state
PendingSums == summaryPendingInfluence(regionPendings, now).storeInfos

\* the refresh of side rw is due in a call from the current state
RefreshDue(rw) ==
    now - updateTimeOf(rw, updateReadTime, updateWriteTime) >= StatisticsInterval

\* a dispatch of a forbidden side from any reachable state can end in one way only:
\* no operators, and the ledger as the decay pass left it
C16_ForbiddenReturnsNothing ==
    LET decayed == prepareForBalance(regionPendings, now)
    IN  \A typ \in ResourceTypes, conf \in Configs :
            isForbidRWType(conf, rwOf(typ)) =>
                balance(decayed, typ, conf, regionSize) = {Outcome(<<>>, decayed)}

\* a call whose side is forbidden: nothing returned, no entry inserted, the entries
\* that were due collected, and the details of the side rebuilt when they were due
C16_Step ==
    (called' /\ lastCall'.forbidden) =>
        LET decayed == prepareForBalance(regionPendings, now)
            rw == lastCall'.rw
        IN  /\ ret'.ops = <<>>
            /\ regionPendings' = decayed
            /\ ret'.collected = DOMAIN regionPendings \ DOMAIN decayed
            /\ \A r \in DOMAIN regionPendings :
                   ZombieElapsed(regionPendings[r], now) => r \notin DOMAIN regionPendings'
            /\ RefreshDue(rw) =>
                   /\ stLoadInfos'[buildResourceType(rw, "LeaderKind")] = PendingSums
                   /\ stLoadInfos'[buildResourceType(rw, "RegionKind")] = PendingSums
                   /\ updateTimeOf(rw, updateReadTime', updateWriteTime') = now

\* C16: when the RW side of the chosen resource type is forbidden, dispatch returns no
\* operators and inserts no ledger entry, but only after prepareForBalance has run:
\* the decay pass and its collection of expired entries, and the refresh of the load
\* details when it is due, still happen in that invocation
C16_ForbiddenStillPrepares == []C16_ForbiddenReturnsNothing /\ [][C16_Step]_vars

\* a dispatch of a forbidden side, after time has passed, has collected an expired
\* entry and rebuilt the details of its side for the second time
C16_Witness ==
    /\ called
    /\ lastCall.forbidden
    /\ ret.collected # {}
    /\ now > 0
    /\ updateTimeOf(lastCall.rw, updateReadTime, updateWriteTime) = now
    /\ \E r \in Regions : r \notin DOMAIN regionPendings

\* a call of Schedule and the side rw: the details of both resource kinds of the
\* side and its update time are rebuilt when the side was drawn and is due, and are
\* left as they are otherwise
SideRefreshed(rw) ==
    LET leader == buildResourceType(rw, "LeaderKind")
        peer == buildResourceType(rw, "RegionKind")
    IN  IF lastCall'.rw = rw /\ RefreshDue(rw)
        THEN /\ stLoadInfos'[leader] = PendingSums
             /\ stLoadInfos'[peer] = PendingSums
             /\ updateTimeOf(rw, updateReadTime', updateWriteTime') = now
        ELSE /\ stLoadInfos'[leader] = stLoadInfos[leader]
             /\ stLoadInfos'[peer] = stLoadInfos[peer]
             /\ updateTimeOf(rw, updateReadTime', updateWriteTime')
                    = updateTimeOf(rw, updateReadTime, updateWriteTime)

C17_Step ==
    IF called'
    THEN lastCall'.rw \in RWTypes /\ \A rw \in RWTypes : SideRefreshed(rw)
    ELSE UNCHANGED refreshVars

C18_Step ==
    called' =>
        LET rw == lastCall'.rw
        IN  \A resource \in {"LeaderKind", "RegionKind"} :
                LET ty == buildResourceType(rw, resource)
                IN  IF RefreshDue(rw)
                    THEN stLoadInfos'[ty] = PendingSums
                    ELSE /\ stLoadInfos'[ty] = stLoadInfos[ty]
                         /\ stLoadInfos[ty] # NoDetail

\* the details a search has just used are less than statisticsInterval old
C18_DetailsAge ==
    called =>
        LET last == updateTimeOf(lastCall.rw, updateReadTime, updateWriteTime)
        IN  /\ last >= 0 /\ last <= now
            /\ now - last < StatisticsInterval
            /\ \A resource \in {"LeaderKind", "RegionKind"} :
                   stLoadInfos[buildResourceType(lastCall.rw, resource)] # NoDetail

Accessing(w) == pc[w] \in {"randomType", "dispatch"}

\* C19: with several workers calling Schedule on one scheduler, a worker is inside an
\* access to stLoadInfos, regionPendings or the random generator only while it holds
\* the lock of the scheduler, so no two workers are inside such an access at once
C19_AccessesUnderLock ==
    /\ \A w \in Workers : Accessing(w) => lockHolder = w
    /\ \A w, v \in Workers : (Accessing(w) /\ Accessing(v)) => w = v
    /\ rngState = "intact"

\* the last filterSrcStores looked at a store that is not a TiFlash store
FilteredTiKV == srcCall # NoFilter /\ ~srcDetail.IsTiFlash

\* every history sample of dimension i exceeds the ratio times the expected sample
HistoryExceeds(i) ==
    srcDetail.HistoryLoads # <<>> =>
        \A j \in 1..Len(srcDetail.HistoryLoads[i]) :
            exceeds(srcDetail.HistoryLoads[i][j], SrcToleranceRatio, ExpectLoad)

\* the load of dimension i exceeds the ratio times the expected load
MinExceeds(i) == exceeds(srcDetail.Min[i], SrcToleranceRatio, ExpectLoad)

\* the selected dimensions of the last solver
SelectedDims == {i \in Dims : isSelectedDim(srcCall.bs, i)}

\* the check policy of the last solver accepts the set of dimensions good: it holds
\* all the selected ones, a selected one, or the first priority
PolicyHolds(good) ==
    CASE srcCall.bs.policy = "AllOf" -> SelectedDims \subseteq good
      [] srcCall.bs.policy = "AnyOf" -> SelectedDims \cap good # {}
      [] srcCall.bs.policy = "FirstOnly" -> srcCall.bs.firstPriority \in good

FilteredDst == dstCall # NoDstFilter

\* the tolerance ratio pickDstStores applies to the candidate
CandidateRatio ==
    DstToleranceRatio + (IF dstDetail.IsTiFlash THEN TiflashToleranceRatioCorrection ELSE 0)

\* the max load of dimension i times the ratio is below the expected load
MaxBelow(i) == below(dstDetail.Max[i], CandidateRatio, ExpectLoad)

\* every history sample of dimension i times the ratio is below the expected sample
HistoryBelow(i) ==
    dstDetail.HistoryLoads # <<>> =>
        \A j \in 1..Len(dstDetail.HistoryLoads[i]) :
            below(dstDetail.HistoryLoads[i][j], CandidateRatio, ExpectLoad)

\* the selected dimensions of the last solver of the destination side
DstSelectedDims == {i \in Dims : isSelectedDim(dstCall.bs, i)}

\* the check policy of that solver accepts the set of dimensions good
DstPolicyHolds(good) ==
    CASE dstCall.bs.policy = "AllOf" -> DstSelectedDims \subseteq good
      [] dstCall.bs.policy = "AnyOf" -> DstSelectedDims \cap good # {}
      [] dstCall.bs.policy = "FirstOnly" -> dstCall.bs.firstPriority \in good

\* the store-state filter of the search passes the candidate: it can receive a peer
\* (a move of a peer) or take the leader (a transfer of the leader)
StoreStatePasses ==
    IF dstCall.bs.opTy = "movePeer"
    THEN "StoreStateMoveRegion" \in dstDetail.passes
    ELSE "StoreStateTransferLeader" \in dstDetail.passes

\* C21 as stated: a store is admitted as destination only if the store-state filter,
\* the special-use filter and the placement safeguard pass it, it holds no peer of
\* the region, and its max load times the ratio is below the expected load on every
\* selected dimension, as is every history sample of those dimensions; no store is
\* admitted when the placement safeguard rejects the candidate
C21_AdmittedPassesEveryFilter ==
    /\ (FilteredDst /\ 1 \in dstCall.admitted) =>
           /\ StoreStatePasses
           /\ dstDetail.peer = "none"
           /\ "SpecialUse" \in dstDetail.passes
           /\ "PlacementSafeguard" \in dstDetail.passes
           /\ \A i \in DstSelectedDims : MaxBelow(i)
           /\ \A i \in DstSelectedDims : HistoryBelow(i)
    /\ (FilteredDst /\ "PlacementSafeguard" \notin dstDetail.passes) => dstCall.admitted = {}

\* C21, amended: a store is admitted as destination only if every filter of the
\* pipeline of the search passes it and the check policy of the rank accepts, over the
\* selected dimensions, max_load[i] * ratio < expect[i] and, for a store with history,
\* the same inequality on every sample.  The pipeline of a move of a peer is the
\* store-state filter (can receive a peer), the excluded filter (no peer of the region
\* yet), the special-use filter and the placement safeguard; the pipeline of a
\* transfer of the leader is the store-state filter (can take the leader), the
\* special-use filter and the placement safeguard for leaders, and has no excluded
\* filter: its destinations are stores that hold a peer of the region, or for a read
\* search stores that can receive one.  No store is admitted when the placement
\* safeguard rejects every candidate, and the store of the main peer is never admitted
C21_AdmittedPassesPipeline ==
    /\ (FilteredDst /\ 1 \in dstCall.admitted) =>
           /\ StoreStatePasses
           /\ dstCall.bs.opTy = "movePeer" => dstDetail.peer = "none"
           /\ (dstCall.bs.opTy = "transferLeader" /\ dstCall.bs.rwTy = "write")
                  => dstDetail.peer = "follower"
           /\ (dstCall.bs.opTy = "transferLeader" /\ dstCall.bs.rwTy = "read")
                  => (dstDetail.peer # "none" \/ "StoreStateMoveRegion" \in dstDetail.passes)
           /\ "SpecialUse" \in dstDetail.passes
           /\ "PlacementSafeguard" \in dstDetail.passes
           /\ DstPolicyHolds({i \in Dims : MaxBelow(i)})
           /\ DstPolicyHolds({i \in Dims : HistoryBelow(i)})
    /\ (FilteredDst /\ "PlacementSafeguard" \notin dstDetail.passes) => dstCall.admitted = {}
    /\ 2 \notin dstCall.admitted

\* a search that transfers the leader has admitted a store that holds a follower of
\* the region and has history samples, one of them above the tolerance
C21_Witness ==
    /\ FilteredDst
    /\ dstCall.bs.opTy = "transferLeader"
    /\ dstDetail.peer = "follower"
    /\ \E i \in Dims : ~HistoryBelow(i)
    /\ 1 \in dstCall.admitted

\* an operator takes from, or gives to, a TiFlash store
TouchesTiFlash(op) == IsTiFlash(op.from) \/ IsTiFlash(op.to)

\* the search is the write-peer search and conf.getEnableForTiFlash() is on
TiFlashSearch(rw, opTy, conf) == rw = "write" /\ opTy = "movePeer" /\ conf.enableForTiFlash

\* C22: filterSrcStores and pickDstStores admit a TiFlash store only in a write-peer
\* search with enable-for-tiflash on; so for the read types, for write-leader and with
\* the option off no search ends with, and no dispatch from a reachable state returns,
\* an operator whose source or destination store is a TiFlash store
C22_TiFlashOnlyWritePeer ==
    /\ \A rw \in RWTypes, opTy \in OpTypes, conf \in Configs :
           (\/ filterSrcStores(rw, opTy, stLoadDetail, conf) \cap TiFlashStores # {}
            \/ pickDstStores(rw, opTy, stLoadDetail, conf) \cap TiFlashStores # {})
               => TiFlashSearch(rw, opTy, conf)
    /\ \A b \in SolveOutcomes : \A i \in 1..Len(b.ops) :
           TouchesTiFlash(b.ops[i]) => TiFlashSearch(b.rwTy, b.opTy, b.conf)
    /\ LET decayed == prepareForBalance(regionPendings, now)
       IN  \A typ \in ResourceTypes, conf \in Configs :
               \A out \in balance(decayed, typ, conf, regionSize) :
                   \A i \in 1..Len(out.ops) :
                       TouchesTiFlash(out.ops[i]) => typ = "writePeer" /\ conf.enableForTiFlash

\* a dispatch has returned the move of a peer from one TiFlash store to another
C22_Witness ==
    /\ called
    /\ Len(ret.ops) = 1
    /\ ret.ops[1].kind = "move-peer"
    /\ IsTiFlash(ret.ops[1].from) /\ IsTiFlash(ret.ops[1].to)
    /\ ret.ops[1].region \in DOMAIN regionPendings

\* C23: with src-tolerance-ratio at 0 or below every store (with a hot peer) passes
\* the load and history checks of the source side, and with dst-tolerance-ratio at 0
\* or below every candidate (that passes the filters) passes those of the destination
\* side, whatever the loads and the expected loads, 0 included
C23_NonPositiveRatioDisablesGate ==
    /\ (tolCall.side = "src" /\ tolInput.srcToleranceRatio <= 0) => tolCall.passed
    /\ (tolCall.side = "dst" /\ tolInput.dstToleranceRatio <= 0) => tolCall.passed

\* the list given to the last filterHotPeers, its length and what the call returned
PeerList == peerInput.HotPeers
PeerCount == Len(peerInput.HotPeers)
PeerRet == peerCall.result.ret

\* the load of the peer at position id on the priority of step k of the zipper: the
\* first priority at the odd steps, the second at the even ones
ZipperLoad(k, id) == IF k % 2 = 1 THEN PeerList[id].first ELSE PeerList[id].second

\* the ways to take maxPeerNum distinct peers in alternation: at every step a peer
\* not taken yet whose load on the priority of the step is the highest among the
\* peers not taken yet
ZipperPicks ==
    {q \in [1..peerInput.maxPeerNum -> 1..PeerCount] :
        \A k \in 1..peerInput.maxPeerNum :
            /\ \A j \in 1..(k - 1) : q[j] # q[k]
            /\ \A id \in 1..PeerCount :
                   (\A j \in 1..(k - 1) : q[j] # id) => ZipperLoad(k, q[k]) >= ZipperLoad(k, id)}

\* the peers of a list, as a set
PeerSet(list) == {list[i] : i \in 1..Len(list)}

\* the list holds no peer twice
NoPeerTwice(list) == \A i, j \in 1..Len(list) : i # j => list[i] # list[j]

\* C24 as stated: for a store with more than max-peer-number hot peers the list
\* filterHotPeers returns holds exactly the max-peer-number peers the zipper takes
C24_CappedResultHasMaxPeerNum ==
    (peerCall.done /\ PeerCount > peerInput.maxPeerNum) =>
        /\ Len(PeerRet) = peerInput.maxPeerNum
        /\ NoPeerTwice(PeerRet)
        /\ \E q \in ZipperPicks :
               PeerSet(PeerRet) = {PeerList[q[k]] : k \in 1..peerInput.maxPeerNum}

\* C24, amended: for a store with more than max-peer-number hot peers the zipper takes,
\* in alternation, the hottest peer not yet taken by the first and by the second
\* priority until it holds max-peer-number distinct peers, whether or not they are
\* pending; the list filterHotPeers returns holds those of them that are neither
\* pending nor in need of a cool-down, so it has at most max-peer-number peers, and
\* exactly that many when none of the peers taken is pending or cooling down
C24_CappedThenFiltered ==
    (peerCall.done /\ PeerCount > peerInput.maxPeerNum) =>
        /\ Len(PeerRet) <= peerInput.maxPeerNum
        /\ NoPeerTwice(PeerRet)
        /\ \E q \in ZipperPicks :
               LET taken == {PeerList[q[k]] : k \in 1..peerInput.maxPeerNum}
               IN  /\ Cardinality(taken) = peerInput.maxPeerNum
                   /\ PeerSet(PeerRet) = {item \in taken : appendable(item)}
                   /\ (\A item \in taken : appendable(item))
                          => Len(PeerRet) = peerInput.maxPeerNum

\* a store with max-peer-number + 1 hot peers, as many of them as max-peer-number
\* neither pending nor cooling down: the call has returned fewer than max-peer-number
C24_Witness ==
    /\ peerCall.done
    /\ PeerCount = peerInput.maxPeerNum + 1
    /\ Len(SelectSeq(PeerList, appendable)) >= peerInput.maxPeerNum
    /\ PeerRet # <<>>
    /\ Len(PeerRet) < peerInput.maxPeerNum

\* the call put no peer in bs.nthHotPeer of the store
NothingMemoized == peerCall.result.nthFirst = NoPeer /\ peerCall.result.nthSecond = NoPeer

\* the call returned the raw list, in its order, without the peers that are pending
\* or need a cool-down, and made no sorted copy
RawListReturned ==
    /\ ~peerCall.result.sorted
    /\ PeerRet = SelectSeq(PeerList, appendable)

\* C25 as stated: for a store with topnPosition - 1 hot peers filterHotPeers does not
\* sort and does not cap: it returns the raw list in its order minus the peers that
\* are pending or need a cool-down, and memoizes no n-th peer
C25_BelowTopnNoSort ==
    (peerCall.done /\ PeerCount = TopnPosition - 1) => RawListReturned /\ NothingMemoized

\* C25, amended: for a store with topnPosition - 1 hot peers filterHotPeers memoizes no
\* n-th peer; when the list is not longer than max-peer-number it does not sort and
\* does not cap, and returns the raw list in its order minus the peers that are
\* pending or need a cool-down; when the list is longer than max-peer-number it
\* sorts and caps, as for any list longer than max-peer-number.  A list of
\* topnPosition peers or more has its n-th peers memoized
C25_BelowTopnAndCapNoSort ==
    /\ (peerCall.done /\ PeerCount = TopnPosition - 1) =>
           /\ NothingMemoized
           /\ PeerCount <= peerInput.maxPeerNum => RawListReturned
           /\ PeerCount > peerInput.maxPeerNum =>
                  /\ peerCall.result.sorted
                  /\ Len(PeerRet) <= peerInput.maxPeerNum
    /\ (peerCall.done /\ PeerCount >= TopnPosition) =>
           /\ peerCall.result.sorted
           /\ peerCall.result.nthFirst \in PeerSet(PeerList)
           /\ peerCall.result.nthSecond \in PeerSet(PeerList)

\* a store with topnPosition - 1 hot peers and a max-peer-number that is not below:
\* the call has returned the list without a peer that is pending
C25_Witness ==
    /\ peerCall.done
    /\ PeerCount = TopnPosition - 1
    /\ PeerCount <= peerInput.maxPeerNum
    /\ \E i \in 1..PeerCount : PeerList[i].pending
    /\ PeerRet # <<>>
    /\ RawListReturned

\* the kind createOperator gives the operator of (region, src, dst), and the role of
\* the peer it adds: the table of section 4.7
BuiltAsTabled(op, region, src, dst) ==
    /\ op.region = region /\ op.from = src /\ op.to = dst
    /\ op.kind \in {"transfer-leader", "move-leader", "move-peer"}
    /\ op.kind = "transfer-leader" <=> HasStorePeer(region, dst)
    /\ op.kind = "move-leader" <=>
           (~HasStorePeer(region, dst) /\ RegionLeaderStore(region) = src)
    /\ op.kind # "transfer-leader" => op.role = RegionPeerRole(region, src)

\* every operator createOperator builds follows the table, and so do the operators,
\* main and revert, a search ends with when they are not splits
OperatorsAsTabled ==
    /\ \A region \in Regions, src \in Stores, dst \in Stores :
           (src # dst /\ createOperator(region, src, dst) # NoOp)
               => BuiltAsTabled(createOperator(region, src, dst), region, src, dst)
    /\ \A b \in SolveOutcomes :
           (b.ops # <<>> /\ b.ops[1].kind # "split-region") =>
               /\ BuiltAsTabled(b.ops[1], b.best.region, b.best.srcStore, b.best.dstStore)
               /\ Len(b.ops) = 2 =>
                      BuiltAsTabled(b.ops[2], b.best.revertRegion, b.best.dstStore,
                                    b.best.srcStore)

\* no peer search, read or write, ends with the transfer of a leader, and no dispatch
\* of a peer type returns one
MovePeerNeverTransfers ==
    /\ \A b \in SolveOutcomes : b.opTy = "movePeer" =>
           \A i \in 1..Len(b.ops) : b.ops[i].kind # "transfer-leader"
    /\ LET decayed == prepareForBalance(regionPendings, now)
       IN  \A conf \in Configs : \A out \in balance(decayed, "writePeer", conf, regionSize) :
               \A i \in 1..Len(out.ops) : out.ops[i].kind # "transfer-leader"

\* the operators are the one split by load of the main region, which solve() returns
\* when region buckets are enabled and the main peer is too hot
IsSplitByLoad(ops, region, conf) ==
    /\ conf.enableRegionBucket
    /\ region \in HotBucketRegions
    /\ ops = <<SplitOp(region)>>

\* C26 as stated: the operator built for (region, src, dst), for a region that is not
\* oversized, is a transfer-leader exactly when dst holds a peer of the region, a
\* move-leader exactly when dst holds none and src holds the leader, and otherwise a
\* move-peer whose new peer has the role of the peer on src; a movePeer solver never
\* emits a transfer-leader, and a write transferLeader solver emits nothing but
\* transfer-leader operators
C26_WriteLeaderOnlyTransfers ==
    /\ OperatorsAsTabled
    /\ MovePeerNeverTransfers
    /\ \A b \in SolveOutcomes : (b.rwTy = "write" /\ b.opTy = "transferLeader") =>
           \A i \in 1..Len(b.ops) : b.ops[i].kind = "transfer-leader"

\* C26, amended: the table of createOperator as stated, and a movePeer solver never
\* emits a transfer-leader; a write transferLeader solver emits only transfer-leader
\* operators unless region buckets are enabled and the main peer is too hot, when it
\* emits one split by load of the main region instead (the main region need not be
\* oversized); it never emits a move-leader or a move-peer
C26_WriteLeaderTransfersOrSplitsByLoad ==
    /\ OperatorsAsTabled
    /\ MovePeerNeverTransfers
    /\ \A b \in SolveOutcomes : (b.rwTy = "write" /\ b.opTy = "transferLeader") =>
           \/ \A i \in 1..Len(b.ops) : b.ops[i].kind = "transfer-leader"
           \/ IsSplitByLoad(b.ops, b.best.region, b.conf)
    /\ LET decayed == prepareForBalance(regionPendings, now)
       IN  \A conf \in Configs : \A out \in balance(decayed, "writeLeader", conf, regionSize) :
               \/ \A i \in 1..Len(out.ops) : out.ops[i].kind = "transfer-leader"
               \/ \E region \in Regions : IsSplitByLoad(out.ops, region, conf)

\* a dispatch has returned the transfer of the leader of a region that is not
\* oversized to a store that holds a voter, its entry is in the ledger, and in the
\* state reached the write-leader search of the other configuration can still end
\* with a transfer and the peer searches with a move-leader and a move-peer
C26_Witness ==
    /\ called
    /\ Len(ret.ops) = 1
    /\ ret.ops[1].kind = "transfer-leader"
    /\ ~IsOversized(regionSize, ret.ops[1].region)
    /\ HasStorePeer(ret.ops[1].region, ret.ops[1].to)
    /\ ret.ops[1].region \in DOMAIN regionPendings
    /\ \E b \in SolveOutcomes :
           /\ b.opTy = "movePeer" /\ b.ops # <<>>
           /\ b.ops[1].kind = "move-peer" /\ b.ops[1].role = "Learner"

\* the key is strictly inside the key range of the region given to splitBucketsByLoad
InsideSplitRegion(key) ==
    /\ key # EmptyKey
    /\ key > splitInput.region.StartKey
    /\ (splitInput.region.EndKey = EmptyKey \/ key < splitInput.region.EndKey)

\* the valid buckets: the positions in the list of the stats with a start key or an
\* end key inside the region
ValidBuckets ==
    {i \in 1..Len(splitInput.stats) :
        \/ InsideSplitRegion(splitInput.stats[i].StartKey)
        \/ InsideSplitRegion(splitInput.stats[i].EndKey)}

\* the load of a bucket on the dimension of the first priority of the solver, or of
\* its second priority when the first one is the query rate
PriorityLoad(i) ==
    LET bs == splitInput.bs
        dimension == IF bs.firstPriority = QueryDim THEN bs.secondPriority
                     ELSE bs.firstPriority
        loads == splitInput.stats[i].Loads
    IN  CASE bs.rwTy = "read" /\ dimension = 0 -> loads[0]
          [] bs.rwTy = "read" /\ dimension = 1 -> loads[1]
          [] bs.rwTy = "write" /\ dimension = 0 -> loads[3]
          [] bs.rwTy = "write" /\ dimension = 1 -> loads[4]

\* the load of a set of buckets
RECURSIVE LoadOfBuckets(_)
LoadOfBuckets(buckets) ==
    IF buckets = {} THEN 0
    ELSE LET i == CHOOSE j \in buckets : TRUE
         IN  PriorityLoad(i) + LoadOfBuckets(buckets \ {i})

\* the total load of the valid buckets
TotalBucketLoad == LoadOfBuckets(ValidBuckets)

\* the bucket boundaries a split key can be taken from: the start keys and the end
\* keys of the valid buckets that are inside the region
SplitBoundaries ==
    {key \in {splitInput.stats[i].StartKey : i \in ValidBuckets}
               \cup {splitInput.stats[i].EndKey : i \in ValidBuckets} :
        InsideSplitRegion(key)}

\* the load of the valid buckets that end at or before a boundary, and how far twice
\* that load is from the total (the distance of the load from half of the total,
\* doubled)
LoadBefore(key) ==
    LoadOfBuckets({i \in ValidBuckets : /\ splitInput.stats[i].EndKey # EmptyKey
                                        /\ splitInput.stats[i].EndKey <= key})
FromHalf(key) ==
    IF 2 * LoadBefore(key) >= TotalBucketLoad
    THEN 2 * LoadBefore(key) - TotalBucketLoad
    ELSE TotalBucketLoad - 2 * LoadBefore(key)

\* the operator of the last splitBucketsByLoad and its split key
SplitOperator == splitCall.op
SplitKey == splitCall.op.keys[1]

\* what holds of every splitBucketsByLoad: with fewer than two valid buckets there is
\* no operator, and an operator has one split key, strictly inside the region
SplitKeyInside ==
    splitCall.done =>
        /\ Cardinality(ValidBuckets) < 2 => SplitOperator = NilOperator
        /\ SplitOperator # NilOperator =>
               /\ SplitOperator.kind = "split-region"
               /\ Len(SplitOperator.keys) = 1
               /\ InsideSplitRegion(SplitKey)

\* C27: the split key of splitBucketsByLoad is the bucket boundary whose
\* cumulative load, on the first priority or on the second one when the first is the
\* query rate, is closest to half of the total load of the valid buckets; it is
\* strictly inside the region, and there is no split with fewer than two valid buckets
C27_SplitKeyClosestToHalf ==
    /\ SplitKeyInside
    /\ (splitCall.done /\ SplitOperator # NilOperator) =>
           /\ SplitKey \in SplitBoundaries
           /\ \A key \in SplitBoundaries : FromHalf(SplitKey) <= FromHalf(key)

\* the stored GC safe point of the key space, 0 when there is none
StoredGCSafePoint == LoadKeySpaceGCSafePoint(gcEtcd)

\* the step is a call of the RPC, and it returned a response
AnsweredStep(rpc) == gcCall'.rpc = rpc /\ gcCall'.ok

\* the response of the step is the error of that type, with Succeeded = false and
\* that NewSafePoint, and the step wrote nothing
RefusedStep(type, newSafePoint) ==
    /\ gcCall'.response.header = type
    /\ ~gcCall'.response.Succeeded
    /\ gcCall'.response.NewSafePoint = newSafePoint
    /\ gcEtcd' = gcEtcd

\* no step lowers the stored GC safe point, and an UpdateGCSafePoint that succeeds
\* stores the safe point requested and returns it as NewSafePoint
C28_Monotone ==
    /\ LoadKeySpaceGCSafePoint(gcEtcd') >= StoredGCSafePoint
    /\ (AnsweredStep("UpdateGCSafePoint") /\ gcCall'.response.Succeeded) =>
           /\ gcCall'.response.header = "OK"
           /\ gcCall'.response.NewSafePoint = gcCall'.SafePoint
           /\ LoadKeySpaceGCSafePoint(gcEtcd') = gcCall'.SafePoint
           /\ gcEtcd'.kvs[KeySpaceGCSafePointPath] = FormatUint16(gcCall'.SafePoint)

\* one step of the GC service as C28 states it: every UpdateGCSafePoint with a safe
\* point below the stored one is answered with SAFEPOINT_ROLLBACK
C28_StepAsStated ==
    /\ C28_Monotone
    /\ (gcCall'.rpc = "UpdateGCSafePoint" /\ gcCall'.SafePoint < StoredGCSafePoint) =>
           RefusedStep("SAFEPOINT_ROLLBACK", StoredGCSafePoint)

\* one step of the GC service: an UpdateGCSafePoint with a safe point below the
\* stored one writes nothing; it is answered with SAFEPOINT_ROLLBACK when its revision
\* is the current one of the key space and with REVISION_MISMATCH otherwise
C28_Step ==
    /\ C28_Monotone
    /\ (gcCall'.rpc = "UpdateGCSafePoint" /\ gcCall'.SafePoint < StoredGCSafePoint) =>
           /\ gcCall'.ok
           /\ gcCall'.Revision = getKeySpaceRevision(gcEtcd) =>
                  RefusedStep("SAFEPOINT_ROLLBACK", StoredGCSafePoint)
           /\ gcCall'.Revision # getKeySpaceRevision(gcEtcd) =>
                  RefusedStep("REVISION_MISMATCH", 0)

\* C28 as stated: across any sequence of GC RPCs the stored GC safe point of the key
\* space never decreases; an UpdateGCSafePoint with a safe point below the stored one
\* writes nothing and answers SAFEPOINT_ROLLBACK with Succeeded = false and
\* NewSafePoint = the stored value; one that succeeds stores exactly the value
\* requested and returns it as NewSafePoint
C28_BelowStoredAnswersRollback == [][C28_StepAsStated]_vars

\* C28, amended: the stored GC safe point never decreases and a successful
\* UpdateGCSafePoint stores exactly the value requested and returns it; an
\* UpdateGCSafePoint with a safe point below the stored one writes nothing, and it
\* answers SAFEPOINT_ROLLBACK with Succeeded = false and NewSafePoint = the stored
\* value when its revision equals the current revision of the key space; when the
\* revision differs it answers REVISION_MISMATCH with NewSafePoint = 0 instead
C28_BelowStoredWritesNothing == [][C28_Step]_vars

\* a safe point of two digits in base 16 is stored, and an UpdateGCSafePoint with
\* the current revision and a lower safe point has just been answered with
\* SAFEPOINT_ROLLBACK and the stored value
C28_Witness ==
    /\ gcCall.rpc = "UpdateGCSafePoint" /\ gcCall.ok
    /\ gcCall.response.header = "SAFEPOINT_ROLLBACK"
    /\ gcCall.Revision = getKeySpaceRevision(gcEtcd)
    /\ gcCall.SafePoint = MaxSafePoint - 1
    /\ StoredGCSafePoint = MaxSafePoint
    /\ gcCall.response.NewSafePoint = MaxSafePoint
    /\ Len(gcEtcd.kvs[KeySpaceGCSafePointPath]) = 2

\* the service has a service safe point in the store
HasServiceSafePoint(etcd, serviceID) ==
    LoadServiceSafePoint(etcd, serviceID) # NilServiceSafePoint

\* one step of the GC service.  An UpdateGCSafePoint changes the store, or succeeds,
\* only with the current revision of the key space.  No step gives a service its
\* first safe point without a new revision of the key space, and the revision of the
\* key space never goes back.  An UpdateGCSafePoint with the revision of a
\* GetMinServiceSafePoint after which a service without a safe point has registered
\* one is answered with REVISION_MISMATCH and leaves the store as it is
C29_Step ==
    /\ (gcCall'.rpc = "UpdateGCSafePoint"
            /\ (gcEtcd' # gcEtcd \/ gcCall'.response.Succeeded)) =>
           gcCall'.Revision = getKeySpaceRevision(gcEtcd)
    /\ getKeySpaceRevision(gcEtcd') >= getKeySpaceRevision(gcEtcd)
    /\ \A serviceID \in Services :
           (~HasServiceSafePoint(gcEtcd, serviceID) /\ HasServiceSafePoint(gcEtcd', serviceID))
               => getKeySpaceRevision(gcEtcd') > getKeySpaceRevision(gcEtcd)
    /\ (gcCall'.rpc = "UpdateGCSafePoint" /\ gcSeen.asked /\ gcSeen.registered
            /\ gcCall'.Revision = gcSeen.revision) =>
           /\ gcCall'.ok
           /\ RefusedStep("REVISION_MISMATCH", 0)
           /\ LoadKeySpaceGCSafePoint(gcEtcd') = StoredGCSafePoint

\* C29: UpdateGCSafePoint takes effect only if the revision of the request is the
\* current revision of the key space; the registration of a service safe point for a
\* service that has none advances the revision of the key space, before the safe
\* point is saved, so an UpdateGCSafePoint with the revision a GetMinServiceSafePoint
\* returned before that registration fails with REVISION_MISMATCH (Succeeded = false,
\* NewSafePoint = 0) and leaves the GC safe point unchanged
C29_StaleRevisionRefused == [][C29_Step]_vars

\* a GetMinServiceSafePoint returned the revision of a key space that had been
\* touched, a service without a safe point then registered one, and an
\* UpdateGCSafePoint with that revision and a safe point above the stored one has
\* just been answered with REVISION_MISMATCH
C29_Witness ==
    /\ gcCall.rpc = "UpdateGCSafePoint" /\ gcCall.ok
    /\ gcCall.response.header = "REVISION_MISMATCH"
    /\ gcSeen.asked /\ gcSeen.registered
    /\ gcSeen.revision # RevisionUnavailable
    /\ gcCall.Revision = gcSeen.revision
    /\ getKeySpaceRevision(gcEtcd) > gcSeen.revision
    /\ gcCall.SafePoint > StoredGCSafePoint
    /\ StoredGCSafePoint > 0

\* the least safe point UpdateServiceSafePoint accepts from the service: its safe
\* point when it has one, else the GC safe point of the key space, 0 when there is
\* none
SafePointLowerBound(serviceID) ==
    IF KeySpaceServiceSafePointPath(serviceID) \in DOMAIN gcEtcd.kvs
    THEN gcEtcd.kvs[KeySpaceServiceSafePointPath(serviceID)][2]
    ELSE IF KeySpaceGCSafePointPath \in DOMAIN gcEtcd.kvs
    THEN StoredGCSafePoint
    ELSE 0

\* the step leaves every key but the service safe point of the service, and the
\* revision of the key space, as they are, and the service has no safe point after it
OnlyRemoves(serviceID) ==
    /\ DOMAIN gcEtcd'.kvs = DOMAIN gcEtcd.kvs \ {KeySpaceServiceSafePointPath(serviceID)}
    /\ \A key \in DOMAIN gcEtcd'.kvs : gcEtcd'.kvs[key] = gcEtcd.kvs[key]
    /\ getKeySpaceRevision(gcEtcd') = getKeySpaceRevision(gcEtcd)

\* one UpdateServiceSafePoint that returns a response
C30_Step ==
    AnsweredStep("UpdateServiceSafePoint") =>
        /\ gcCall'.TTL > 0 =>
               /\ gcCall'.response.Succeeded =>
                      /\ gcCall'.SafePoint >= SafePointLowerBound(gcCall'.ServiceId)
                      /\ gcCall'.response.header = "OK"
                      /\ LoadServiceSafePoint(gcEtcd', gcCall'.ServiceId)
                             = ServiceSafePoint(gcCall'.ServiceId, gcCall'.SafePoint)
               /\ gcCall'.SafePoint < SafePointLowerBound(gcCall'.ServiceId) =>
                      /\ gcCall'.response.header = "SAFEPOINT_ROLLBACK"
                      /\ ~gcCall'.response.Succeeded
                      /\ gcEtcd' = gcEtcd
               /\ gcCall'.SafePoint >= SafePointLowerBound(gcCall'.ServiceId) =>
                      gcCall'.response.Succeeded
        /\ gcCall'.TTL <= 0 =>
               /\ gcCall'.response.header = "OK"
               /\ gcCall'.response.Succeeded
               /\ OnlyRemoves(gcCall'.ServiceId)

----------------------------------------------------------------------------
(* RunInTxn *)

\* a step in which the function of the user makes a call on the transaction
TxnCallStep == txn.running /\ txn'.running /\ txn'.calls = txn.calls + 1

\* a step in which the function of the user returns and RunInTxn returns
TxnReturnStep == txn.running /\ ~txn'.running

\* C31: inside RunInTxn, Save and Remove only record an operation, and no call of the
\* function changes the store; when the function returns an error, RunInTxn returns
\* that error, the store stays as it is and the recorded operations are dropped with
\* the transaction
C31_Step ==
    /\ TxnCallStep => txnKv' = txnKv
    /\ TxnCallStep /\ txnRet'.call \in {"Save", "Remove"} =>
           /\ Len(txn'.operations) = Len(txn.operations) + 1
           /\ SubSeq(txn'.operations, 1, Len(txn.operations)) = txn.operations
           /\ txn'.operations[Len(txn'.operations)] =
                  (IF txnRet'.call = "Save"
                   THEN OpPut(FullKey(txnRet'.key), txnRet'.value)
                   ELSE OpDelete(FullKey(txnRet'.key)))
           /\ txn'.conditions = txn.conditions
           /\ txnRet'.err = "nil"
    /\ TxnReturnStep /\ txnRet'.err = "user" =>
           /\ txnKv' = txnKv
           /\ txn' = NoTxn
C31_SaveRemoveOnlyRecord == [][C31_Step]_vars

\* a RunInTxn has returned the error of its function, and a Save it had recorded is not
\* in the store
C31_Witness ==
    /\ txnRet.call = "RunInTxn" /\ txnRet.err = "user"
    /\ \E i \in DOMAIN txnRet.operations :
           /\ txnRet.operations[i].type = "put"
           /\ txnKv[txnRet.operations[i].Key] # txnRet.operations[i].Value

\* every key a Load or a LoadRange of the transaction observed has, for a Load now, the
\* value that was observed
ObservedValuesStay ==
    \A i \in DOMAIN txn.conditions :
        KvLoad(txnKv, TrimKey(txn.conditions[i].Key), FALSE).value = txn.conditions[i].Value

\* C32: a commit that reaches etcd applies all the recorded operations when every key
\* loaded through the transaction still has the value that was observed, and returns
\* ErrEtcdTxnConflict and applies nothing otherwise
C32_Step ==
    TxnReturnStep /\ txnRet'.err \in {"nil", "ErrEtcdTxnConflict"} =>
        IF ObservedValuesStay
        THEN txnRet'.err = "nil" /\ txnKv' = applyOps(txnKv, txn.operations)
        ELSE txnRet'.err = "ErrEtcdTxnConflict" /\ txnKv' = txnKv
C32_CommitIffObservedValuesStay == [][C32_Step]_vars

\* the transaction has loaded a key that does not exist and recorded a Save, and no
\* other client has written since the load
LoadedMissingKeyThenSaved ==
    /\ ~txn.disturbed
    /\ \E i \in DOMAIN txn.conditions :
           txn.conditions[i].Value = "" /\ txnKv[txn.conditions[i].Key] = Absent
    /\ txn.loaded = <<>>
    /\ \E j \in DOMAIN txn.operations : txn.operations[j].type = "put"

\* C39: a RunInTxn that loaded a key that does not exist and then saved, with no other
\* writer in between, commits: it returns no conflict and its operations are applied
C39_Step ==
    TxnReturnStep /\ txnRet'.err \in {"nil", "ErrEtcdTxnConflict"}
                  /\ LoadedMissingKeyThenSaved =>
        txnRet'.err = "nil" /\ txnKv' = applyOps(txnKv, txn.operations)
C39_MissingKeyLoadCommits == [][C39_Step]_vars

\* the keys and values of a range that a LoadRange of the transaction returned are what
\* the same LoadRange returns now
RangeUnchanged(load) ==
    LET got == KvLoadRange(txnKv, load.key, load.endKey, load.limit, FALSE)
    IN  got.keys = load.keys /\ got.values = load.values

\* C40: a RunInTxn that read a range with LoadRange commits only if the content of the
\* range is unchanged at commit time; otherwise it returns ErrEtcdTxnConflict and
\* applies nothing
C40_Step ==
    TxnReturnStep /\ txnRet'.err \in {"nil", "ErrEtcdTxnConflict"}
                  /\ (\E i \in DOMAIN txn.loaded : ~RangeUnchanged(txn.loaded[i])) =>
        txnRet'.err = "ErrEtcdTxnConflict" /\ txnKv' = txnKv
C40_RangeChangeConflicts == [][C40_Step]_vars

----------------------------------------------------------------------------
(* The retry quota *)

\* what getLimit answers for a store
LimitOf(limits, store) == getLimit(limits, store).limit

\* the larger of two numbers
Larger(a, b) == IF a > b THEN a ELSE b

\* C33: a store without record has limit 10; an attenuate halves the limit of its store
\* with integer division, not below 1; resetLimit restores 10; gc restores 10 for
\* every store that is not kept and leaves the limits of the kept stores; every call
\* leaves the limits of the other stores, and every limit is between 1 and 10
C33_Step ==
    \A store \in QuotaStores :
        LET before == LimitOf(quotaLimits, store)
            after == LimitOf(quotaLimits', store)
            call == quotaCall'.call
            named == store \in quotaCall'.stores
        IN  /\ store \notin DOMAIN quotaLimits => before = 10
            /\ call = "getLimit" => after = before /\ (named => quotaCall'.limit = before)
            /\ call = "attenuate" =>
                   after = (IF named THEN Larger(before \div 2, 1) ELSE before)
            /\ call = "resetLimit" => after = (IF named THEN 10 ELSE before)
            /\ call = "gc" => after = (IF named THEN before ELSE 10)
C33_LimitsInRange == \A store \in QuotaStores : LimitOf(quotaLimits, store) \in 1..10
C33_RetryQuota == []C33_LimitsInRange /\ [][C33_Step]_vars

\* a gc has kept a store whose limit was attenuated down to 1 and dropped the record
\* of another
C33_Witness ==
    /\ quotaCall.call = "gc"
    /\ \E kept \in quotaCall.stores : kept \in DOMAIN quotaLimits /\ quotaLimits[kept] = 1
    /\ \E store \in QuotaStores \ quotaCall.stores : LimitOf(quotaLimits, store) = 10

----------------------------------------------------------------------------
(* The evict-slow-store scheduler *)

\* a step that is a Schedule of the evict-slow-store scheduler, and one of balance-leader
EvictScheduleStep == evictCall'.scheduler = "evict-slow-store"
BalanceScheduleStep == evictCall'.scheduler = "balance-leader"

\* no store is recorded and one store is slow: the Schedule detects it
Detects(store) == evictStore(evictConf) = 0 /\ SlowStores(slowScore) = {store}

\* a store is recorded and its slow score has recovered
Recovered(store) ==
    evictStore(evictConf) = store /\ slowScore[store] <= slowStoreRecoverThreshold

\* the operators move leaders off the store, and there is one
MovesLeadersOff(ops, store) ==
    /\ ops # {}
    /\ \A op \in ops : op.desc = "evict-slow-store" /\ op.from = store /\ store \notin op.targets

\* balance-leader emits a transfer of a leader to the store
BalanceMayTransferTo(paused, store) ==
    \E op \in balanceLeaderSchedule(paused) : store \in op.targets

\* C34 as stated: a Schedule that finds a slow store, with the storage working, records
\* it and emits a transfer-leader off it; while it is recorded balance-leader transfers no leader to
\* it; the next Schedule after its score has recovered emits nothing and clears the
\* record, the persisted configuration equals the one in memory, and balance-leader
\* may transfer leaders to the store again
C34_StepAsStated ==
    \A store \in EvictStores :
        /\ EvictScheduleStep /\ Detects(store) /\ ~persistFail =>
               evictStore(evictConf') = store /\ MovesLeadersOff(evictCall'.ops, store)
        /\ BalanceScheduleStep /\ evictStore(evictConf) = store =>
               \A op \in evictCall'.ops : store \notin op.targets
        /\ EvictScheduleStep /\ Recovered(store) =>
               /\ evictCall'.ops = {}
               /\ evictStore(evictConf') = 0
               /\ evictStorage' = evictConf'
               /\ store \notin evictPaused'
C34_Step ==
    \A store \in EvictStores :
        /\ EvictScheduleStep /\ Detects(store) =>
               /\ evictStore(evictConf') = store
               /\ ~persistFail =>
                      /\ store \in evictPaused'
                      /\ evictStorage' = evictConf'
                      /\ MovesLeadersOff(evictCall'.ops, store)
        /\ BalanceScheduleStep /\ store \in evictPaused =>
               \A op \in evictCall'.ops : store \notin op.targets
        /\ EvictScheduleStep /\ Recovered(store) /\ evictCall'.ready =>
               /\ evictCall'.ops = {}
               /\ evictStore(evictConf') = 0
               /\ store \notin evictPaused'
               /\ ~persistFail => evictStorage' = evictConf'
               /\ BalanceMayTransferTo(evictPaused', store) = BalanceMayTransferTo({}, store)
        /\ EvictScheduleStep /\ Recovered(store) /\ ~evictCall'.ready =>
               /\ evictConf' = evictConf
               /\ evictPaused' = evictPaused
C34_PausedAreRecorded == evictPaused \subseteq {evictStore(evictConf)}
C35_Step ==
    \A store \in EvictStores :
        /\ EvictScheduleStep /\ Detects(store) /\ persistFail => evictCall'.ops = {}
        /\ EvictScheduleStep /\ ~persistFail /\ SlowStores(slowScore) = {store}
                             /\ evictStore(evictConf) \in {0, store} =>
               MovesLeadersOff(evictCall'.ops, store)
C35_PersistFailEmitsNothing == [][C35_Step]_vars

\* the eviction operator of a slow store is emitted, with persistence working, while
\* the storage holds no configuration: the detection of the store could not persist
C35_Witness ==
    /\ evictCall.scheduler = "evict-slow-store"
    /\ ~persistFail
    /\ evictStorage = NotPersisted
    /\ \E store \in SlowStores(slowScore) : MovesLeadersOff(evictCall.ops, store)

(***************************************************************************)
(* Source and destination of the operators of a dispatch                   *)
(***************************************************************************)

\* the searches a dispatch can run: the statistics, the operator type, the
\* configuration, a source store and a hot peer of it whose region getRegion admits
MainPeers ==
    LET decayed == prepareForBalance(regionPendings, now)
    IN  UNION {{[rwTy |-> x[1], opTy |-> x[2], conf |-> x[3], srcStore |-> s, mainPeerStat |-> p] :
                   p \in {q \in filterHotPeers(decayed, x[1], s) : getRegion(x[2], q, s) # 0}} :
               <<x, s>> \in (RWTypes \X OpTypes \X Configs) \X stLoadDetail}

\* the destination candidates of a search for one main peer
DstCandidates(m) ==
    filterDstStores(m.rwTy, m.opTy, m.srcStore, m.mainPeerStat.RegionID, m.mainPeerStat,
                    stLoadDetail, m.conf)

\* an operator that is not a split moves between two different stores
DstDiffersFromSrc(op) == op.kind # "split-region" => op.to # op.from

\* C36: in every mode the source store of a search is not among its destination
\* candidates, a revert operator goes from the main destination to the main source,
\* and every operator that a search can end with or that a dispatch returns, a
\* split apart, has a destination store different from its source store
C36_DestinationDiffersFromSource ==
    /\ \A m \in MainPeers : m.srcStore \notin DstCandidates(m)
    /\ \A b \in SolveOutcomes :
           /\ \A i \in 1..Len(b.ops) : DstDiffersFromSrc(b.ops[i])
           /\ (Len(b.ops) = 2 /\ b.ops[2].kind # "split-region") =>
                  /\ b.ops[2].from = b.best.dstStore
                  /\ b.ops[2].to = b.best.srcStore
                  /\ b.best.dstStore # b.best.srcStore
    /\ called => \A i \in 1..Len(ret.ops) : DstDiffersFromSrc(ret.ops[i])

\* a dispatch has returned a main operator from one store to another together with
\* its revert operator, which goes back from the main destination to the main source
C36_Witness ==
    /\ called
    /\ Len(ret.ops) = 2
    /\ ret.ops[1].kind # "split-region"
    /\ ret.ops[1].to # ret.ops[1].from
    /\ ret.ops[2].from = ret.ops[1].to
    /\ ret.ops[2].to = ret.ops[1].from

(***************************************************************************)
(* The loop of sortHotPeers                                                *)
(***************************************************************************)

\* the peers at the first k places of a sorted list
TopOf(sorted, k) == {sorted[i] : i \in 1..(IF k < Len(sorted) THEN k ELSE Len(sorted))}

\* what sortHotPeers has returned: max(maxPeerNum, 0) peers of different regions,
\* each among the first maxPeerNum of one of the two lists it was given
C37_Returned ==
    sortLoop.pc = "done" =>
        LET k == peerInput.maxPeerNum
            union == sortLoop.union
        IN  /\ Cardinality(union) = (IF k > 0 THEN k ELSE 0)
            /\ Cardinality({peer.id : peer \in union}) = Cardinality(union)
            /\ union \subseteq TopOf(sortLoop.first, k) \cup TopOf(sortLoop.second, k)
            /\ union = sortHotPeers(sortLoop.first, sortLoop.second, k)

\* C37: sortHotPeers, called by filterHotPeers with two orders of a list of more
\* than maxPeerNum hot peers, maxPeerNum being positive, zero or negative, ends, and
\* returns exactly max(maxPeerNum, 0) distinct peers, each among the top maxPeerNum
\* of the first-priority order or of the second-priority order
C37_SortHotPeersTerminates ==
    /\ []C37_Returned
    /\ (sortLoop.pc = "loop") ~> (sortLoop.pc = "done")

\* sortHotPeers has returned two peers of a list of three whose two orders differ:
\* one of the two is not among the top two of the first-priority order
C37_Witness ==
    /\ sortLoop.pc = "done"
    /\ peerInput.maxPeerNum = 2
    /\ Len(sortLoop.first) = 3
    /\ \E peer \in sortLoop.union : peer \notin TopOf(sortLoop.first, 2)

(***************************************************************************)
(* The GC safe point under workers that follow the protocol                *)
(***************************************************************************)

\* the services with a stored service safe point: the lease of an expired one has
\* deleted its key
LiveServices == {s \in Services : KeySpaceServiceSafePointPath(s) \in DOMAIN gcEtcd.kvs}

====
